---- MODULE Spec2Model ----
(***************************************************************************)
(* A model of the r3f-vfx particle engine: the particle pool of            *)
(* core-vfx (VFXParticleSystem: spawn cursor, parameter store, dispatch    *)
(* queue, init / spawn / update kernels), the EmitterController timer and  *)
(* the recreation gate (resolveFeatures / needsRecreation).                *)
(*                                                                         *)
(* Numbers.  The source computes in floating point; the model computes in  *)
(* exact integers on fixed scales:                                         *)
(*   lifetime, fadeRate : multiples of 1/LifeScale (1.0 == LifeScale)      *)
(*   size, speed        : tenths                                           *)
(*   velocity           : multiples of 1/VelScale                          *)
(*   position           : multiples of 1/PosScale                          *)
(*   dt                 : whole ticks                                      *)
(* hash() values are drawn from {0, 1}, the two ends of its range, so      *)
(* every mix(a, b, r) is a or b and stays an integer.  Angles are whole    *)
(* quarter turns and direction vectors are axis aligned, so sin / cos and  *)
(* normalize() are exact.                                                  *)
(***************************************************************************)
EXTENDS Integers, Sequences, FiniteSets, TLC

(***************************************************************************)
(* Bounds of the model.                                                    *)
(***************************************************************************)
MaxParticles == 2      \* pool capacity N (the maxParticles option)
MaxCount == 3          \* largest spawn count drawn (reaches beyond N)
MaxInflight == 2       \* dispatches that may be in flight at once
MaxTime == 3           \* ticks of simulated time (turbulenceTime cap)
MaxAge == 4            \* updates counted per particle (the count saturates here)
MaxSum == 4            \* largest sum of spawn counts between two cursor resets
MaxAcc == 4            \* largest emit accumulator value
MaxCalls == 2          \* setProps calls in a behaviour of the recreation gate
MaxPools == 2          \* systems a wrapper constructs in a behaviour
MaxWrapperCalls == 5   \* calls made on a wrapper in a behaviour
MaxEmits == 2          \* emit calls made on a controller in a behaviour
MaxSystems == 3        \* systems the components of a scene construct in a behaviour
CURVE_RESOLUTION == 3  \* samples of a baked curve (256 in the source)

(***************************************************************************)
(* Scales and program constants.                                           *)
(***************************************************************************)
LifeScale == 12                    \* lifetime.assign(float(1))
Tenth == 10                        \* size and speed are held in tenths (0.1)
SpeedDen == 10 * LifeScale * LifeScale   \* speedScale = 1 - intensity * 0.9, eased
VelScale == LifeScale * Tenth      \* velocity = dir * speed, -offset * fadeRate
PosScale == VelScale * SpeedDen    \* position += velocity * dt * speedScale
SentinelY == -1000                 \* position.assign(vec3(0, -1000, 0))
SentinelPos == <<0, SentinelY * PosScale, 0>>

(***************************************************************************)
(* Small vector algebra (THREE.Vector3 / TSL vec3).                        *)
(***************************************************************************)
Zero3 == <<0, 0, 0>>
VAdd(a, b) == <<a[1] + b[1], a[2] + b[2], a[3] + b[3]>>
VScale(a, k) == <<a[1] * k, a[2] * k, a[3] * k>>
VNeg(a) == VScale(a, -1)
Abs(n) == IF n < 0 THEN -n ELSE n
Sign(n) == IF n > 0 THEN 1 ELSE IF n < 0 THEN -1 ELSE 0
Min2(a, b) == IF a < b THEN a ELSE b
Max2(a, b) == IF a < b THEN b ELSE a
\* Vector3.normalize() and the kernel's length-guarded normalisation, exact
\* on axis-aligned vectors (the zero vector stays zero).
Normalize(v) == <<Sign(v[1]), Sign(v[2]), Sign(v[3])>>
\* mix(a, b, r) for r in {0, 1}
Mix(a, b, r) == a + (b - a) * r

(***************************************************************************)
(* JavaScript values of configuration fields: a number, an array, null or  *)
(* undefined (absent).                                                     *)
(***************************************************************************)
Undef == [t |-> "undef", v |-> 0]
Null == [t |-> "null", v |-> 0]
Num(n) == [t |-> "num", v |-> n]
Arr(s) == [t |-> "arr", v |-> s]
Absent(x) == x.t \in {"undef", "null"}

\* utils.ts toRange: scalar v -> [v, v]; 2-array as is; other array -> [v0, v0]
ToRange(value, defaultVal) ==
  IF Absent(value) THEN defaultVal
  ELSE IF value.t = "arr"
       THEN IF Len(value.v) = 2 THEN value.v ELSE <<value.v[1], value.v[1]>>
       ELSE <<value.v, value.v>>

\* a nested array [[..], [..], [..]] of three range values
Nested(a, b, c) == [t |-> "nested", v |-> <<a, b, c>>]

\* utils.ts toRotation3D
ToRotation3D(value) ==
  IF Absent(value) THEN <<<<0, 0>>, <<0, 0>>, <<0, 0>>>>
  ELSE IF value.t = "num"
       THEN <<<<value.v, value.v>>, <<value.v, value.v>>, <<value.v, value.v>>>>
       ELSE IF value.t = "nested"
            THEN <<ToRange(value.v[1], <<0, 0>>), ToRange(value.v[2], <<0, 0>>),
                   ToRange(value.v[3], <<0, 0>>)>>
            ELSE LET range == ToRange(value, <<0, 0>>) IN <<range, range, range>>

\* utils.ts lifetimeToFadeRate: 1 / seconds, on the lifetime scale (and a
\* variant that fades too slowly)
LifetimeToFadeRateSlow(seconds) == LifeScale \div (seconds + 1)
LifetimeToFadeRate(seconds) == LifeScale \div seconds

\* utils.ts hexToRgb: a well-formed hex colour gives its channels (0..255
\* here, 0..1 in the source); anything else gives white.
HexTable == [red |-> <<255, 0, 0>>, blue |-> <<0, 0, 255>>, white |-> <<255, 255, 255>>]
White == <<255, 255, 255>>
HexToRgb(hex) == IF hex \in DOMAIN HexTable THEN HexTable[hex] ELSE White

\* sin / cos of an angle given in eighth turns (pi / 4); exact on quarter turns
SinA(a) == CASE a = 0 -> 0 [] a = 2 -> 1 [] a = 4 -> 0 [] a = 6 -> -1
CosA(a) == CASE a = 0 -> 1 [] a = 2 -> 0 [] a = 4 -> -1 [] a = 6 -> 0

(***************************************************************************)
(* Configuration.  BaseOptions is the options object a system is built     *)
(* from; fields left Undef take the defaults of normalizeProps.            *)
(***************************************************************************)
EmitterShapePoint == 0
EmitterShapeBox == 1
EmitterShapeSphere == 2
EmitterShapeCone == 3
EmitterShapeDisk == 4
EmitterShapeEdge == 5

NoCollision == [on |-> FALSE, planeY |-> 0, bounce |-> 0, friction |-> 0, die |-> FALSE,
                sizeBasedGravity |-> 0]

BaseOptions ==
  [ maxParticles |-> MaxParticles,
    size |-> Undef, speed |-> Undef, lifetime |-> Undef,
    gravity |-> Zero3,
    direction |-> Nested(Arr(<<0, 0>>), Arr(<<1, 1>>), Arr(<<0, 0>>)),
    startPosition |-> Undef, rotation |-> Undef, rotationSpeed |-> Undef,
    frictionIntensity |-> Undef, frictionEasing |-> 0,
    colorStart |-> <<"white">>, colorEnd |-> <<>>, colorEndNull |-> TRUE,
    emitterShape |-> EmitterShapeBox,
    emitterRadius |-> Undef, emitterAngle |-> 2, emitterHeight |-> Undef,
    emitterSurfaceOnly |-> FALSE, emitterDirection |-> <<0, 1, 0>>,
    turbulenceIntensity |-> 0, turbulenceSpeed |-> 1, attractorCount |-> 0,
    attractToCenter |-> FALSE, startPositionAsDirection |-> FALSE,
    collision |-> NoCollision,
    position |-> Zero3, autoStart |-> TRUE, delay |-> 0, emitCount |-> 1 ]

\* the colour list padded to 8 entries with its last colour (white when empty)
RECURSIVE PadColors(_)
PadColors(colors) ==
  IF Len(colors) >= 8 THEN SubSeq(colors, 1, 8)
  ELSE PadColors(Append(colors, IF Len(colors) = 0 THEN White ELSE colors[Len(colors)]))
MapHex(hexes) == [i \in 1..Len(hexes) |-> HexToRgb(hexes[i])]

\* utils.ts normalizeProps, for the fields the kernels and the spawn path read
NormalizeProps(props) ==
  LET effectiveColorEnd == IF props.colorEndNull THEN props.colorStart ELSE props.colorEnd
  IN [ maxParticles |-> props.maxParticles,
       sizeRange |-> ToRange(props.size, <<1, 3>>),
       speedRange |-> ToRange(props.speed, <<1, 1>>),
       lifetimeRange |-> ToRange(props.lifetime, <<1, 2>>),
       gravity |-> props.gravity,
       direction3D |-> ToRotation3D(props.direction),
       startPosition3D |-> ToRotation3D(props.startPosition),
       rotation3D |-> ToRotation3D(props.rotation),
       rotationSpeed3D |-> ToRotation3D(props.rotationSpeed),
       frictionIntensityRange |-> ToRange(props.frictionIntensity, <<0, 0>>),
       frictionEasingType |-> props.frictionEasing,
       startColors |-> PadColors(MapHex(SubSeq(props.colorStart, 1, Min2(8, Len(props.colorStart))))),
       endColors |-> PadColors(MapHex(SubSeq(effectiveColorEnd, 1, Min2(8, Len(effectiveColorEnd))))),
       colorStartCount |-> Len(props.colorStart),
       colorEndCount |-> Len(effectiveColorEnd),
       emitterShape |-> props.emitterShape,
       emitterRadiusRange |-> ToRange(props.emitterRadius, <<0, 1>>),
       emitterAngle |-> props.emitterAngle,
       emitterHeightRange |-> ToRange(props.emitterHeight, <<0, 1>>),
       emitterSurfaceOnly |-> props.emitterSurfaceOnly,
       emitterDirection |-> props.emitterDirection,
       turbulenceIntensity |-> props.turbulenceIntensity,
       turbulenceSpeed |-> props.turbulenceSpeed,
       attractorCount |-> props.attractorCount,
       attractToCenter |-> props.attractToCenter,
       startPositionAsDirection |-> props.startPositionAsDirection,
       collision |-> props.collision,
       position |-> props.position,
       autoStart |-> props.autoStart,
       delay |-> props.delay,
       emitCount |-> props.emitCount ]

(***************************************************************************)
(* The parameter store ("uniforms"): one cell per simulation parameter.    *)
(***************************************************************************)
Bit(b) == IF b THEN 1 ELSE 0

\* uniforms.ts createUniforms
CreateUniforms(np) ==
  [ sizeMin |-> np.sizeRange[1], sizeMax |-> np.sizeRange[2],
    gravity |-> np.gravity,
    frictionIntensityStart |-> np.frictionIntensityRange[1],
    frictionIntensityEnd |-> np.frictionIntensityRange[2],
    frictionEasingType |-> np.frictionEasingType,
    speedMin |-> np.speedRange[1], speedMax |-> np.speedRange[2],
    lifetimeMin |-> LifetimeToFadeRate(np.lifetimeRange[2]),
    lifetimeMax |-> LifetimeToFadeRate(np.lifetimeRange[1]),
    deltaTime |-> 0,
    dirMinX |-> np.direction3D[1][1], dirMaxX |-> np.direction3D[1][2],
    dirMinY |-> np.direction3D[2][1], dirMaxY |-> np.direction3D[2][2],
    dirMinZ |-> np.direction3D[3][1], dirMaxZ |-> np.direction3D[3][2],
    startPosMinX |-> np.startPosition3D[1][1], startPosMaxX |-> np.startPosition3D[1][2],
    startPosMinY |-> np.startPosition3D[2][1], startPosMaxY |-> np.startPosition3D[2][2],
    startPosMinZ |-> np.startPosition3D[3][1], startPosMaxZ |-> np.startPosition3D[3][2],
    spawnPosition |-> np.position,
    spawnIndexStart |-> 0, spawnIndexEnd |-> 0, spawnSeed |-> 0,
    rotationMinX |-> np.rotation3D[1][1], rotationMaxX |-> np.rotation3D[1][2],
    rotationMinY |-> np.rotation3D[2][1], rotationMaxY |-> np.rotation3D[2][2],
    rotationMinZ |-> np.rotation3D[3][1], rotationMaxZ |-> np.rotation3D[3][2],
    rotationSpeedMinX |-> np.rotationSpeed3D[1][1], rotationSpeedMaxX |-> np.rotationSpeed3D[1][2],
    rotationSpeedMinY |-> np.rotationSpeed3D[2][1], rotationSpeedMaxY |-> np.rotationSpeed3D[2][2],
    rotationSpeedMinZ |-> np.rotationSpeed3D[3][1], rotationSpeedMaxZ |-> np.rotationSpeed3D[3][2],
    colorStartCount |-> np.colorStartCount, colorEndCount |-> np.colorEndCount,
    colorStart0 |-> np.startColors[1], colorStart1 |-> np.startColors[2],
    colorStart2 |-> np.startColors[3], colorStart3 |-> np.startColors[4],
    colorStart4 |-> np.startColors[5], colorStart5 |-> np.startColors[6],
    colorStart6 |-> np.startColors[7], colorStart7 |-> np.startColors[8],
    colorEnd0 |-> np.endColors[1], colorEnd1 |-> np.endColors[2],
    colorEnd2 |-> np.endColors[3], colorEnd3 |-> np.endColors[4],
    colorEnd4 |-> np.endColors[5], colorEnd5 |-> np.endColors[6],
    colorEnd6 |-> np.endColors[7], colorEnd7 |-> np.endColors[8],
    emitterShapeType |-> np.emitterShape,
    emitterRadiusInner |-> np.emitterRadiusRange[1],
    emitterRadiusOuter |-> np.emitterRadiusRange[2],
    emitterAngle |-> np.emitterAngle,
    emitterHeightMin |-> np.emitterHeightRange[1],
    emitterHeightMax |-> np.emitterHeightRange[2],
    emitterSurfaceOnly |-> Bit(np.emitterSurfaceOnly),
    emitterDir |-> Normalize(np.emitterDirection),
    turbulenceIntensity |-> np.turbulenceIntensity,
    turbulenceTime |-> 0,
    attractorCount |-> 0,
    attractToCenter |-> Bit(np.attractToCenter),
    startPositionAsDirection |-> Bit(np.startPositionAsDirection),
    velocityCurveEnabled |-> 0, rotationSpeedCurveEnabled |-> 0,
    collisionEnabled |-> Bit(np.collision.on),
    collisionPlaneY |-> np.collision.planeY,
    collisionBounce |-> np.collision.bounce,
    collisionFriction |-> np.collision.friction,
    collisionDie |-> Bit(np.collision.die),
    sizeBasedGravity |-> np.collision.sizeBasedGravity ]

(***************************************************************************)
(* Spawn-time overrides.  An overrides argument is null or an object; the  *)
(* object is a function from the keys it holds to their values.            *)
(***************************************************************************)
NoOverrides == [isNull |-> TRUE, o |-> <<>>]
Overrides(obj) == [isNull |-> FALSE, o |-> obj]
\* overrides.key !== undefined, for keys holding a number / array / null
HasT(o, key) == key \in DOMAIN o /\ o[key].t # "undef"
\* the same for keys holding a vector, a list or a flag
Has(o, key) == key \in DOMAIN o

\* setUniform(key, value): save the cell's value, then overwrite it (and a
\* variant that saves the new value instead of the old)
SetUniformSaveNew(st, key, value) ==
  IF key \in DOMAIN st.u
  THEN [u |-> [st.u EXCEPT ![key] = value], saved |-> (key :> value) @@ st.saved]
  ELSE st
SetUniform(st, key, value) ==
  IF key \in DOMAIN st.u
  THEN [u |-> [st.u EXCEPT ![key] = value], saved |-> (key :> st.u[key]) @@ st.saved]
  ELSE st

ColorStartKeys == <<"colorStart0", "colorStart1", "colorStart2", "colorStart3",
                    "colorStart4", "colorStart5", "colorStart6", "colorStart7">>
ColorEndKeys == <<"colorEnd0", "colorEnd1", "colorEnd2", "colorEnd3",
                  "colorEnd4", "colorEnd5", "colorEnd6", "colorEnd7">>

\* colors.forEach((c, i) => { saved[key_i] = u[key_i].value.clone(); setRGB(c) })
RECURSIVE SetColors(_, _, _, _)
SetColors(st, keys, colors, i) ==
  IF i > Len(colors) THEN st
  ELSE SetColors(SetUniform(st, keys[i], colors[i]), keys, colors, i + 1)

SetRange(st, minKey, maxKey, range) ==
  SetUniform(SetUniform(st, minKey, range[1]), maxKey, range[2])

Set3D(st, keys, r3) ==
  SetRange(SetRange(SetRange(st, keys[1], keys[2], r3[1]), keys[3], keys[4], r3[2]),
           keys[5], keys[6], r3[3])

\* the guarded blocks of applySpawnOverrides, one per override key, in the
\* order of the source; o is the overrides object
OverrideSize(st, o) ==
  IF HasT(o, "size")
  THEN SetRange(st, "sizeMin", "sizeMax", ToRange(o.size, <<1, 3>>)) ELSE st
OverrideSpeed(st, o) ==
  IF HasT(o, "speed")
  THEN SetRange(st, "speedMin", "speedMax", ToRange(o.speed, <<1, 1>>)) ELSE st
OverrideLifetime(st, o) ==
  IF HasT(o, "lifetime")
  THEN LET range == ToRange(o.lifetime, <<1, 2>>)
       IN SetUniform(SetUniform(st, "lifetimeMin", LifeScale \div range[2]),
                     "lifetimeMax", LifeScale \div range[1])
  ELSE st
OverrideDirection(st, o) ==
  IF HasT(o, "direction")
  THEN Set3D(st, <<"dirMinX", "dirMaxX", "dirMinY", "dirMaxY", "dirMinZ", "dirMaxZ">>,
             ToRotation3D(o.direction))
  ELSE st
OverrideStartPosition(st, o) ==
  IF HasT(o, "startPosition")
  THEN Set3D(st, <<"startPosMinX", "startPosMaxX", "startPosMinY", "startPosMaxY",
                   "startPosMinZ", "startPosMaxZ">>, ToRotation3D(o.startPosition))
  ELSE st
OverrideGravity(st, o) ==
  IF Has(o, "gravity") THEN SetUniform(st, "gravity", o.gravity) ELSE st
OverrideColorStart(st, o) ==
  IF Has(o, "colorStart")
  THEN SetColors(SetUniform(st, "colorStartCount", Len(o.colorStart)), ColorStartKeys,
                 PadColors(MapHex(SubSeq(o.colorStart, 1, Min2(8, Len(o.colorStart))))), 1)
  ELSE st
OverrideColorEnd(st, o) ==
  IF Has(o, "colorEnd")
  THEN SetColors(SetUniform(st, "colorEndCount", Len(o.colorEnd)), ColorEndKeys,
                 PadColors(MapHex(SubSeq(o.colorEnd, 1, Min2(8, Len(o.colorEnd))))), 1)
  ELSE st
OverrideRotation(st, o) ==
  IF HasT(o, "rotation")
  THEN Set3D(st, <<"rotationMinX", "rotationMaxX", "rotationMinY", "rotationMaxY",
                   "rotationMinZ", "rotationMaxZ">>, ToRotation3D(o.rotation))
  ELSE st
OverrideEmitterShape(st, o) ==
  IF Has(o, "emitterShape") THEN SetUniform(st, "emitterShapeType", o.emitterShape) ELSE st
OverrideEmitterRadius(st, o) ==
  IF HasT(o, "emitterRadius")
  THEN SetRange(st, "emitterRadiusInner", "emitterRadiusOuter",
                ToRange(o.emitterRadius, <<0, 1>>))
  ELSE st
OverrideEmitterAngle(st, o) ==
  IF Has(o, "emitterAngle") THEN SetUniform(st, "emitterAngle", o.emitterAngle) ELSE st
OverrideEmitterHeight(st, o) ==
  IF HasT(o, "emitterHeight")
  THEN SetRange(st, "emitterHeightMin", "emitterHeightMax", ToRange(o.emitterHeight, <<0, 1>>))
  ELSE st
OverrideEmitterSurfaceOnly(st, o) ==
  IF Has(o, "emitterSurfaceOnly")
  THEN SetUniform(st, "emitterSurfaceOnly", Bit(o.emitterSurfaceOnly)) ELSE st
OverrideEmitterDirection(st, o) ==
  IF Has(o, "emitterDirection")
  THEN SetUniform(st, "emitterDir", Normalize(o.emitterDirection)) ELSE st

\* uniforms.ts applySpawnOverrides, up to the returned restore closure: the
\* overridden store and the saved cells
ApplySpawnOverrides(u, overrides) ==
  IF overrides.isNull THEN [u |-> u, saved |-> <<>>, restore |-> FALSE]
  ELSE LET o == overrides.o
           st == OverrideEmitterDirection(OverrideEmitterSurfaceOnly(OverrideEmitterHeight(
                 OverrideEmitterAngle(OverrideEmitterRadius(OverrideEmitterShape(
                 OverrideRotation(OverrideColorEnd(OverrideColorStart(OverrideGravity(
                 OverrideStartPosition(OverrideDirection(OverrideLifetime(OverrideSpeed(
                 OverrideSize([u |-> u, saved |-> <<>>], o), o), o), o), o), o), o), o), o),
                 o), o), o), o), o), o)
       IN [u |-> st.u, saved |-> st.saved, restore |-> TRUE]

\* a restore that drops the vector-valued cells: what saving gravity and
\* emitterDir by reference instead of by clone() would give
RestoreScalarsOnly(u, saved) ==
  [k \in DOMAIN u |->
     IF k \in DOMAIN saved /\ k \notin {"gravity", "emitterDir"} THEN saved[k] ELSE u[k]]

\* the restore closure: Object.entries(saved).forEach(u[key].value = value)
Restore(u, saved) ==
  [k \in DOMAIN u |-> IF k \in DOMAIN saved THEN saved[k] ELSE u[k]]

(***************************************************************************)
(* Particle storage: one record per slot (the columns positions,           *)
(* velocities, lifetimes, fadeRates, particleSizes, particleRotations,     *)
(* particleColorStarts, particleColorEnds at one index).                   *)
(***************************************************************************)
Indices(n) == 0..(n - 1)

\* a freshly allocated (zero-filled) slot, before any init dispatch has run
BlankSlot ==
  [ position |-> Zero3, velocity |-> Zero3, lifetime |-> 0, fadeRate |-> 0, size |-> 0,
    rotation |-> Zero3, colorStart |-> Zero3, colorEnd |-> Zero3 ]

\* computeInit / cpuInit: the dead state of a slot
DeadSlot ==
  [ position |-> SentinelPos, velocity |-> Zero3, lifetime |-> 0, fadeRate |-> 0, size |-> 0,
    rotation |-> Zero3, colorStart |-> White, colorEnd |-> White ]

\* computeInit / cpuInit over the whole store (and a variant that zero-fills
\* the arrays without moving the slots to the sentinel height)
InitKernelZeroFill(store) == [i \in DOMAIN store |-> BlankSlot]
InitKernel(store) == [i \in DOMAIN store |-> DeadSlot]

\* hash(seed): a fixed stand-in for the kernel's hash, with values in {0, 1}
Hash(n) == ((n \div 2) + (n \div 3) + (n \div 5) + n) % 2

\* the in-kernel range test of the GPU spawn kernel (wraparound supported)
InRange(idx, startIdx, endIdx) ==
  IF startIdx < endIdx
  THEN idx >= startIdx /\ idx < endIdx
  ELSE idx >= startIdx \/ idx < endIdx

\* the slots the GPU spawn kernel writes
GpuSpawnIndices(startIdx, endIdx, maxParticles) ==
  {idx \in Indices(maxParticles) : InRange(idx, startIdx, endIdx)}

\* (a variant of the CPU loop that takes startIdx = endIdx for an empty range)
CpuSpawnIndicesEmptyWhenEqual(startIdx, endIdx, maxParticles) ==
  LET count == IF startIdx <= endIdx THEN endIdx - startIdx
               ELSE maxParticles - startIdx + endIdx
  IN {(startIdx + j) % maxParticles : j \in 0..(count - 1)}

\* the slots the CPU spawn loop writes: i = (startIdx + j) % maxParticles, j < count
CpuSpawnIndices(startIdx, endIdx, maxParticles) ==
  LET count == IF startIdx < endIdx THEN endIdx - startIdx
               ELSE maxParticles - startIdx + endIdx
  IN {(startIdx + j) % maxParticles : j \in 0..(count - 1)}

SpawnIndices(be, startIdx, endIdx, maxParticles) ==
  IF be = "gpu" THEN GpuSpawnIndices(startIdx, endIdx, maxParticles)
  ELSE CpuSpawnIndices(startIdx, endIdx, maxParticles)

\* rotateToEmitDir: Rodrigues rotation taking the Y axis to emitDir
RotateToEmitDir(localPos, emitDir) ==
  LET cosAngle == emitDir[2]
      axisX == -emitDir[3]
      axisZ == emitDir[1]
      axisLenSq == axisX * axisX + axisZ * axisZ
      kx == axisX
      kz == axisZ
      sinAngle == axisLenSq
      oneMinusCos == 1 - cosAngle
      crossX == -(kz * localPos[2])
      crossY == kz * localPos[1] - kx * localPos[3]
      crossZ == kx * localPos[2]
      kDotV == kx * localPos[1] + kz * localPos[3]
      rotatedX == localPos[1] * cosAngle + crossX * sinAngle + kx * kDotV * oneMinusCos
      rotatedY == localPos[2] * cosAngle + crossY * sinAngle
      rotatedZ == localPos[3] * cosAngle + crossZ * sinAngle + kz * kDotV * oneMinusCos
  IN IF cosAngle = 1 THEN localPos
     ELSE IF cosAngle = -1 THEN <<localPos[1], -localPos[2], localPos[3]>>
     ELSE <<rotatedX, rotatedY, rotatedZ>>

\* the emission-shape offset of one particle
ShapeOffset(u, particleSeed) ==
  LET randPosX == Hash(particleSeed + 5555)
      randPosY == Hash(particleSeed + 6666)
      randPosZ == Hash(particleSeed + 7777)
      randRadius == Hash(particleSeed + 8880)
      randPhi == Hash(particleSeed + 10100)
      randHeight == Hash(particleSeed + 11110)
      \* theta = rand * 2 pi is a whole turn: cos(theta) = 1, sin(theta) = 0
      cosTheta == 1
      sinTheta == 0
      \* phi = acos(1 - 2 rand): 0 or pi
      cosPhi == 1 - 2 * randPhi
      sinPhi == 0
      radiusT == IF u.emitterSurfaceOnly > 0 THEN 1 ELSE randRadius
      radius == Mix(u.emitterRadiusInner, u.emitterRadiusOuter, radiusT)
      boxPos == << Mix(u.startPosMinX, u.startPosMaxX, randPosX),
                   Mix(u.startPosMinY, u.startPosMaxY, randPosY),
                   Mix(u.startPosMinZ, u.startPosMaxZ, randPosZ) >>
      spherePos == <<radius * sinPhi * cosTheta, radius * cosPhi, radius * sinPhi * sinTheta>>
      coneH == Mix(u.emitterHeightMin, u.emitterHeightMax, randHeight)
      coneR == coneH * SinA(u.emitterAngle) * radiusT
      conePos == RotateToEmitDir(<<coneR * cosTheta, coneH * CosA(u.emitterAngle),
                                   coneR * sinTheta>>, u.emitterDir)
      diskR == IF u.emitterSurfaceOnly > 0 THEN u.emitterRadiusOuter
               ELSE Mix(u.emitterRadiusInner, u.emitterRadiusOuter, randRadius)
      diskPos == RotateToEmitDir(<<diskR * cosTheta, 0, diskR * sinTheta>>, u.emitterDir)
      edgeT == randPosX
      edgePos == << Mix(u.startPosMinX, u.startPosMaxX, edgeT),
                    Mix(u.startPosMinY, u.startPosMaxY, edgeT),
                    Mix(u.startPosMinZ, u.startPosMaxZ, edgeT) >>
  IN IF u.emitterShapeType < 1 THEN Zero3
     ELSE IF u.emitterShapeType < 2 THEN boxPos
     ELSE IF u.emitterShapeType < 3 THEN spherePos
     ELSE IF u.emitterShapeType < 4 THEN conePos
     ELSE IF u.emitterShapeType < 5 THEN diskPos
     ELSE edgePos

\* selectColor(idx, c0, ..., c7)
SelectColor(idx, u, keys) == u[keys[Min2(Max2(idx, 0), 7) + 1]]

\* the velocity of a particle attracted to the spawn point: it covers -offset
\* in exactly one lifetime (and a variant that ignores the fade rate)
AttractVelocityUnitLife(shapeOffset, randomFade) ==
  VScale(VNeg(shapeOffset), LifeScale * Tenth)
AttractVelocity(shapeOffset, randomFade) ==
  VScale(VNeg(shapeOffset), randomFade * Tenth)

\* the body of the spawn kernel for one in-range slot
SpawnParticle(idx, u) ==
  LET particleSeed == idx + u.spawnSeed
      randDirX == Hash(particleSeed + 333)
      randDirY == Hash(particleSeed + 444)
      randDirZ == Hash(particleSeed + 555)
      randFade == Hash(particleSeed + 666)
      randColorStart == Hash(particleSeed + 777)
      randColorEnd == Hash(particleSeed + 888)
      randSize == Hash(particleSeed + 999)
      randSpeed == Hash(particleSeed + 1111)
      randRotationX == Hash(particleSeed + 2222)
      randRotationY == Hash(particleSeed + 3333)
      randRotationZ == Hash(particleSeed + 4444)
      shapeOffset == ShapeOffset(u, particleSeed)
      randomFade == Mix(u.lifetimeMin, u.lifetimeMax, randFade)
      attractVelocity == AttractVelocity(shapeOffset, randomFade)
      randomDir == Normalize(<< Mix(u.dirMinX, u.dirMaxX, randDirX),
                                Mix(u.dirMinY, u.dirMaxY, randDirY),
                                Mix(u.dirMinZ, u.dirMaxZ, randDirZ) >>)
      startPosDir == Normalize(shapeOffset)
      dir == IF u.startPositionAsDirection > 0 THEN startPosDir ELSE randomDir
      randomSpeed == Mix(u.speedMin, u.speedMax, randSpeed)
      normalVelocity == VScale(dir, randomSpeed * LifeScale)
  IN [ position |-> VScale(VAdd(u.spawnPosition, shapeOffset), PosScale),
       fadeRate |-> randomFade,
       velocity |-> IF u.attractToCenter > 0 THEN attractVelocity ELSE normalVelocity,
       size |-> Mix(u.sizeMin, u.sizeMax, randSize),
       rotation |-> VScale(<< Mix(u.rotationMinX, u.rotationMaxX, randRotationX),
                              Mix(u.rotationMinY, u.rotationMaxY, randRotationY),
                              Mix(u.rotationMinZ, u.rotationMaxZ, randRotationZ) >>, SpeedDen),
       colorStart |-> SelectColor(randColorStart * u.colorStartCount, u, ColorStartKeys),
       colorEnd |-> SelectColor(randColorEnd * u.colorEndCount, u, ColorEndKeys),
       lifetime |-> LifeScale ]

\* computeSpawn / cpuSpawn over the whole store
SpawnKernel(store, u, be, maxParticles) ==
  LET range == SpawnIndices(be, u.spawnIndexStart, u.spawnIndexEnd, maxParticles)
  IN [i \in DOMAIN store |-> IF i \in range THEN SpawnParticle(i, u) ELSE store[i]]

\* the friction easing of progress = 1 - lifetime, scaled by LifeScale^2
EasedProgress(easingType, life) ==
  LET p == LifeScale - life
  IN IF easingType < 1 THEN p * LifeScale
     ELSE IF easingType < 2 THEN p * p
     ELSE IF easingType < 3 THEN LifeScale * LifeScale - life * life
     ELSE IF 2 * p < LifeScale THEN 2 * p * p
     ELSE LifeScale * LifeScale - 2 * life * life

\* a sample of the default linear curve (1 at birth, 0 at death), scaled by SpeedDen
CurveSample(life) == (SpeedDen * life) \div LifeScale

\* speedScale of the update kernel, scaled by SpeedDen
SpeedScale(u, life) ==
  LET currentIntensity == u.frictionIntensityStart * LifeScale * LifeScale
                          + (u.frictionIntensityEnd - u.frictionIntensityStart)
                            * EasedProgress(u.frictionEasingType, life)
  IN IF u.velocityCurveEnabled > 0 THEN CurveSample(life)
     ELSE SpeedDen - 9 * currentIntensity

\* the plane collision of the update kernel, applied to a moved particle
Collide(p, u) ==
  IF u.collisionEnabled > 0 /\ p.position[2] < u.collisionPlaneY * PosScale
  THEN IF u.collisionDie > 0
       THEN [p EXCEPT !.lifetime = 0, !.position[2] = SentinelY * PosScale]
       ELSE [p EXCEPT !.position[2] = u.collisionPlaneY * PosScale,
                      !.velocity = << p.velocity[1] * u.collisionFriction,
                                      Abs(p.velocity[2]) * u.collisionBounce,
                                      p.velocity[3] * u.collisionFriction >>]
  ELSE p

\* the end of the update kernel: fade, and park the particle when it has died
\* (and a variant that leaves the dead particle where it is)
FadeNoPark(p, dt) ==
  LET life == p.lifetime - p.fadeRate * dt
  IN IF life <= 0
     THEN [p EXCEPT !.lifetime = 0]
     ELSE [p EXCEPT !.lifetime = life]
Fade(p, dt) ==
  LET life == p.lifetime - p.fadeRate * dt
  IN IF life <= 0
     THEN [p EXCEPT !.lifetime = 0, !.position[2] = SentinelY * PosScale]
     ELSE [p EXCEPT !.lifetime = life]

\* the update kernel of a live particle up to the fade: gravity, speed scale,
\* turbulence and attractors, position integration, collision, rotation; noise
\* is the velocity change per second that curl noise and the attractors
\* contribute at this slot (and a variant that tests the plane before it moves
\* the particle)
IntegrateCollideFirst(p, idx, u, noise) ==
  LET dt == u.deltaTime
      gravityMultiplier == Tenth + p.size * u.sizeBasedGravity
      v1 == VAdd(p.velocity, VScale(u.gravity, dt * gravityMultiplier * LifeScale))
      speedScale == SpeedScale(u, p.lifetime)
      forced == u.turbulenceIntensity > 0 \/ u.attractorCount > 0
      v2 == IF forced THEN VAdd(v1, VScale(noise, dt)) ELSE v1
      hit == Collide([p EXCEPT !.velocity = v2], u)
      moved == [hit EXCEPT !.position = VAdd(hit.position,
                                             VScale(hit.velocity, dt * speedScale))]
      rotSpeed == << Mix(u.rotationSpeedMinX, u.rotationSpeedMaxX, Hash(idx + 8888)),
                     Mix(u.rotationSpeedMinY, u.rotationSpeedMaxY, Hash(idx + 9999)),
                     Mix(u.rotationSpeedMinZ, u.rotationSpeedMaxZ, Hash(idx + 10101)) >>
      rotSpeedMultiplier == IF u.rotationSpeedCurveEnabled > 0
                            THEN CurveSample(p.lifetime) ELSE SpeedDen
  IN [moved EXCEPT !.rotation =
         VAdd(moved.rotation, VScale(rotSpeed, dt * rotSpeedMultiplier))]
Integrate(p, idx, u, noise) ==
  LET dt == u.deltaTime
      gravityMultiplier == Tenth + p.size * u.sizeBasedGravity
      v1 == VAdd(p.velocity, VScale(u.gravity, dt * gravityMultiplier * LifeScale))
      speedScale == SpeedScale(u, p.lifetime)
      forced == u.turbulenceIntensity > 0 \/ u.attractorCount > 0
      v2 == IF forced THEN VAdd(v1, VScale(noise, dt)) ELSE v1
      moved == [p EXCEPT !.velocity = v2,
                         !.position = VAdd(p.position, VScale(v2, dt * speedScale))]
      hit == Collide(moved, u)
      rotSpeed == << Mix(u.rotationSpeedMinX, u.rotationSpeedMaxX, Hash(idx + 8888)),
                     Mix(u.rotationSpeedMinY, u.rotationSpeedMaxY, Hash(idx + 9999)),
                     Mix(u.rotationSpeedMinZ, u.rotationSpeedMaxZ, Hash(idx + 10101)) >>
      rotSpeedMultiplier == IF u.rotationSpeedCurveEnabled > 0
                            THEN CurveSample(p.lifetime) ELSE SpeedDen
  IN [hit EXCEPT !.rotation =
         VAdd(hit.rotation, VScale(rotSpeed, dt * rotSpeedMultiplier))]

\* the body of the update kernel for one slot: the fade is its last step
\* (and variants: one that does not test the lifetime first, one that fades
\* first and moves only a particle that survives)
UpdateParticleUnguarded(p, idx, u, noise) ==
  Fade(Integrate(p, idx, u, noise), u.deltaTime)
UpdateParticleFadeFirst(p, idx, u, noise) ==
  IF p.lifetime > 0
  THEN LET faded == Fade(p, u.deltaTime)
       IN IF faded.lifetime <= 0 THEN faded ELSE Integrate(faded, idx, u, noise)
  ELSE p
UpdateParticle(p, idx, u, noise) ==
  IF p.lifetime > 0
  THEN Fade(Integrate(p, idx, u, noise), u.deltaTime)
  ELSE p

\* computeUpdate over the whole store
UpdateKernel(store, u, noise) ==
  [i \in DOMAIN store |-> UpdateParticle(store[i], i, u, noise[i])]

(***************************************************************************)
(* State.                                                                  *)
(*   options, backend    the normalized configuration and the kernel set   *)
(*   initialized, nextIndex, uniforms, isEmitting, emitAccumulator         *)
(*                       the fields of VFXParticleSystem                   *)
(*   store               the per-particle storage arrays                   *)
(*   queue               compute dispatches issued and not yet executed;   *)
(*                       each holds the uniforms as they were at issue     *)
(*   lastOp, lastRun, sumCounts, touched, total                            *)
(*                       history: the last call and its pre-state, the     *)
(*                       last executed dispatch and the store before it,   *)
(*                       the counts spawned since the cursor was reset,    *)
(*                       and the writes per slot in the current round      *)
(*   age, stepDt         history: per slot, the updates executed since it  *)
(*                       was last spawned and the set of their deltaTimes  *)
(*   emitter             the fields of one EmitterController               *)
(*   emHist              history of the emitters: the last timer call and  *)
(*                       its pre-state, the emissions made through update  *)
(*                       while not looping since the last (re)start, and   *)
(*                       the time since the last emission                  *)
(*   config, features    the configuration a framework wrapper holds and   *)
(*                       the features of the system it built from it       *)
(*   gate                history: the last needsRecreation call            *)
(*   wrapper, pools      the fields of the vanilla wrapper and the systems *)
(*                       constructed so far, each with its dispatches in   *)
(*                       flight; wlast is the history of its last call     *)
(*   handed              history: the last emit call of a controller and   *)
(*                       what it handed to spawn                           *)
(*   curve               history: the last curve operation and its result  *)
(*   particles           the registrations of the store; storeCall is the  *)
(*                       history of the last call on the store             *)
(*   react               the React component: its system and its refs      *)
(*   scene               the Vue components of a scene that share a name:  *)
(*                       their systems, and the handle an emitter holds    *)
(***************************************************************************)
VARIABLES options, backend, initialized, nextIndex, uniforms, isEmitting, emitAccumulator,
          store, queue, lastOp, lastRun, sumCounts, touched, total, age, stepDt,
          emitter, emHist, config, features, gate, wrapper, pools, wlast, handed, curve,
          particles, storeCall, react, scene

sysVars == <<options, backend, initialized, nextIndex, uniforms, isEmitting, emitAccumulator>>
poolVars == <<store, queue>>
roundVars == <<touched, total, age, stepDt>>
histVars == <<lastOp, lastRun, sumCounts, roundVars>>
emVars == <<emitter, emHist>>
gateVars == <<config, features, gate>>
wrapVars == <<wrapper, pools, wlast>>
otherVars == <<curve, particles, storeCall, react, scene>>
restVars == <<wrapVars, otherVars>>
extVars == <<wrapVars, handed, otherVars>>
vars == <<sysVars, poolVars, histVars, emVars, gateVars, extVars>>

NoOp == [op |-> "none", c |-> 0, count |-> 0, live |-> FALSE, pre |-> <<>>]
NoRun == [kind |-> "none", count |-> 0, u |-> <<>>, before |-> <<>>]

(***************************************************************************)
(* storage.ts: the features a configuration asks for, and the gate that    *)
(* tells a parameter patch from a rebuild of the system.  A configuration  *)
(* is a record of JS values; a partial update is a record with only the    *)
(* changed keys.                                                           *)
(***************************************************************************)
Obj(v) == [t |-> "obj", v |-> v]

STRUCTURAL_KEYS == {"maxParticles", "lighting", "appearance", "shadow", "orientToDirection"}

\* utils.ts isNonDefaultRotation
IsNonDefaultRotation(r) ==
  IF Absent(r) THEN FALSE
  ELSE IF r.t = "num" THEN r.v # 0
  ELSE IF r.t = "arr" THEN Len(r.v) = 2 /\ (r.v[1] # 0 \/ r.v[2] # 0)
  ELSE IF r.t = "nested"
       THEN \E i \in DOMAIN r.v :
              /\ r.v[i].t = "arr"
              /\ Len(r.v[i].v) >= 2
              /\ (r.v[i].v[1] # 0 \/ r.v[i].v[2] # 0)
  ELSE FALSE

ResolveFeatures(props) ==
  LET colorStart == IF Absent(props.colorStart) THEN <<"white">> ELSE props.colorStart.v
      colorEndNull == Absent(props.colorEnd)
      needsPerParticleColor == Len(colorStart) > 1 \/ ~colorEndNull
      needsRotation ==
        IsNonDefaultRotation(props.rotation) \/ IsNonDefaultRotation(props.rotationSpeed)
      hasTurbulence == ~Absent(props.turbulence) /\ props.turbulence.v > 0
      hasAttractors == ~Absent(props.attractors) /\ Len(props.attractors.v) > 0
      hasCollision == ~Absent(props.collision)
  IN [ needsPerParticleColor |-> needsPerParticleColor,
       needsRotation |-> needsRotation,
       turbulence |-> hasTurbulence,
       attractors |-> hasAttractors,
       collision |-> hasCollision,
       rotation |-> needsRotation,
       perParticleColor |-> needsPerParticleColor ]

\* storage.ts needsRecreation (and a variant that forgets the collision flag)
NeedsRecreationNoCollision(currentFeatures, changedProps, mergedConfig) ==
  LET newFeatures == ResolveFeatures(mergedConfig)
  IN \/ \E key \in STRUCTURAL_KEYS : key \in DOMAIN changedProps
     \/ newFeatures.turbulence # currentFeatures.turbulence
     \/ newFeatures.attractors # currentFeatures.attractors
     \/ newFeatures.needsRotation # currentFeatures.needsRotation
     \/ newFeatures.needsPerParticleColor # currentFeatures.needsPerParticleColor

NeedsRecreation(currentFeatures, changedProps, mergedConfig) ==
  LET newFeatures == ResolveFeatures(mergedConfig)
  IN \/ \E key \in STRUCTURAL_KEYS : key \in DOMAIN changedProps
     \/ newFeatures.turbulence # currentFeatures.turbulence
     \/ newFeatures.attractors # currentFeatures.attractors
     \/ newFeatures.collision # currentFeatures.collision
     \/ newFeatures.needsRotation # currentFeatures.needsRotation
     \/ newFeatures.needsPerParticleColor # currentFeatures.needsPerParticleColor

\* storage.ts createStorageArrays: the optional per-particle arrays that exist
CreateStorageArrays(f) ==
  (IF f.needsRotation THEN {"particleRotations"} ELSE {})
    \cup (IF f.needsPerParticleColor THEN {"particleColorStarts", "particleColorEnds"} ELSE {})

\* the stages the update kernel is compiled with
UpdateStages(f) ==
  [ turbulence |-> f.turbulence, attractors |-> f.attractors, collision |-> f.collision,
    rotation |-> f.rotation, perParticleColor |-> f.perParticleColor ]

\* { ...config, ...newValues }
Merge(cfg, newValues) ==
  [k \in DOMAIN cfg \cup DOMAIN newValues |->
     IF k \in DOMAIN newValues THEN newValues[k] ELSE cfg[k]]

DefaultConfig ==
  [ maxParticles |-> Num(MaxParticles), shadow |-> Undef,
    colorStart |-> Undef, colorEnd |-> Undef, rotation |-> Undef, rotationSpeed |-> Undef,
    turbulence |-> Undef, attractors |-> Undef, collision |-> Undef, gravity |-> Undef ]

NoGate == [called |-> FALSE, keys |-> {}, old |-> ResolveFeatures(DefaultConfig),
           result |-> FALSE, calls |-> 0]

\* a wrapper holding cfg, with the system it created from it
WithConfig(cfg) ==
  /\ config = cfg
  /\ features = ResolveFeatures(cfg)
  /\ gate = NoGate

\* setProps(newValues) up to its recreation gate: the configuration is merged,
\* and the system is rebuilt from it when needsRecreation says so
SetProps(newValues) ==
  LET merged == Merge(config, newValues)
      result == NeedsRecreation(features, newValues, merged)
  IN /\ gate.calls < MaxCalls
     /\ config' = merged
     /\ features' = IF result THEN ResolveFeatures(merged) ELSE features
     /\ gate' = [called |-> TRUE, keys |-> DOMAIN newValues, old |-> features,
                 result |-> result, calls |-> gate.calls + 1]
     /\ UNCHANGED <<sysVars, poolVars, histVars, emVars, extVars>>

\* the state after `new VFXParticleSystem(renderer, opts)`
Constructed(opts, be) ==
  /\ options = NormalizeProps(opts)
  /\ backend = be
  /\ initialized = FALSE
  /\ nextIndex = 0
  /\ uniforms = CreateUniforms(NormalizeProps(opts))
  /\ isEmitting = opts.autoStart
  /\ emitAccumulator = 0
  /\ store = [i \in Indices(opts.maxParticles) |-> BlankSlot]
  /\ queue = <<>>
  /\ lastOp = NoOp
  /\ lastRun = NoRun
  /\ sumCounts = 0
  /\ touched = [i \in Indices(opts.maxParticles) |-> 0]
  /\ total = 0
  /\ age = [i \in Indices(opts.maxParticles) |-> 0]
  /\ stepDt = [i \in Indices(opts.maxParticles) |-> {}]

\* endIdx = (startIdx + count) % maxParticles (and a variant without the wrap)
EndIdxNoWrap(startIdx, count, maxParticles) == startIdx + count
EndIdx(startIdx, count, maxParticles) == (startIdx + count) % maxParticles

\* renderer.computeAsync(kernel): the dispatch is queued with the inputs it has
\* now; count, ov and pre are history (the call's count and overrides, and the
\* uniforms before the call)
Dispatch(kind, u, count, cont, ov, pre) ==
  queue' = Append(queue, [kind |-> kind, u |-> u, count |-> count, cont |-> cont,
                          ov |-> ov, pre |-> pre])

\* VFXParticleSystem.init(): the caller awaits the dispatch, then sets the flag
InitCall ==
  /\ Len(queue) < MaxInflight
  /\ IF initialized
     THEN UNCHANGED queue
     ELSE Dispatch("init", uniforms, 0, "initialized", NoOverrides, uniforms)
  /\ lastOp' = [NoOp EXCEPT !.op = "init"]
  /\ UNCHANGED <<sysVars, gateVars, extVars, store, lastRun, sumCounts, roundVars, emVars>>

\* the effect of VFXParticleSystem.spawn(x, y, z, count, overrides) on the system
SpawnEffect(pos, count, overrides, seed) ==
  IF ~initialized
  THEN UNCHANGED <<nextIndex, uniforms, queue, sumCounts>>
  ELSE LET ap == ApplySpawnOverrides(uniforms, overrides)
           startIdx == nextIndex
           endIdx == EndIdx(startIdx, count, options.maxParticles)
           u1 == [ap.u EXCEPT !.spawnPosition = pos, !.spawnIndexStart = startIdx,
                              !.spawnIndexEnd = endIdx, !.spawnSeed = seed]
       IN /\ nextIndex' = endIdx
          /\ Dispatch("spawn", u1, count, "none", overrides, uniforms)
          /\ uniforms' = IF ap.restore THEN Restore(u1, ap.saved) ELSE u1
          /\ sumCounts' = sumCounts + count

\* a call of VFXParticleSystem.spawn, from the application or from an emitter
SpawnCall(pos, count, overrides, seed) ==
  /\ Len(queue) < MaxInflight
  /\ sumCounts + count <= MaxSum
  /\ SpawnEffect(pos, count, overrides, seed)
  /\ lastOp' = [op |-> "spawn", c |-> nextIndex, count |-> count, live |-> initialized,
                pre |-> uniforms]
  /\ UNCHANGED <<options, backend, gateVars, restVars, initialized, store, lastRun, roundVars>>

\* VFXParticleSystem.spawn
Spawn(pos, count, overrides, seed) ==
  /\ SpawnCall(pos, count, overrides, seed)
  /\ UNCHANGED <<isEmitting, emitAccumulator, emVars, handed>>

\* VFXParticleSystem.update(delta)
Update(delta) ==
  /\ Len(queue) < MaxInflight
  /\ uniforms.turbulenceTime + delta * options.turbulenceSpeed <= MaxTime
  /\ IF ~initialized
     THEN UNCHANGED <<uniforms, queue>>
     ELSE LET u1 == [uniforms EXCEPT !.deltaTime = delta,
                        !.turbulenceTime = @ + delta * options.turbulenceSpeed]
          IN /\ uniforms' = u1
             /\ Dispatch("update", u1, 0, "none", NoOverrides, uniforms)
  /\ lastOp' = [NoOp EXCEPT !.op = "update", !.live = initialized]
  /\ UNCHANGED <<options, backend, gateVars, extVars, initialized, nextIndex, isEmitting, emitAccumulator,
                 store, lastRun, sumCounts, roundVars, emVars>>

\* VFXParticleSystem.clear()
Clear ==
  /\ Len(queue) < MaxInflight
  /\ Dispatch("init", uniforms, 0, "none", NoOverrides, uniforms)
  /\ nextIndex' = 0
  /\ sumCounts' = 0
  /\ lastOp' = [NoOp EXCEPT !.op = "clear"]
  /\ UNCHANGED <<options, backend, gateVars, extVars, initialized, uniforms, isEmitting, emitAccumulator,
                 store, lastRun, roundVars, emVars>>

\* the writes-per-slot history of one executed spawn (2 stands for twice or
\* more); a round ends once the counts spawned in it have reached the capacity
Touch(range, count) ==
  LET fresh == total >= options.maxParticles
      base == IF fresh THEN [i \in DOMAIN touched |-> 0] ELSE touched
  IN /\ touched' = [i \in DOMAIN touched |-> IF i \in range THEN Min2(base[i] + 1, 2) ELSE base[i]]
     /\ total' = (IF fresh THEN 0 ELSE total) + count

\* the oldest queued dispatch executes on the device
RunDispatch(noises) ==
  /\ queue # <<>>
  /\ LET d == Head(queue)
     IN /\ queue' = Tail(queue)
        /\ lastRun' = [kind |-> d.kind, count |-> d.count, u |-> d.u, before |-> store]
        /\ \/ /\ d.kind = "init"
              /\ store' = InitKernel(store)
              /\ initialized' = IF d.cont = "initialized" THEN TRUE ELSE initialized
              /\ touched' = [i \in DOMAIN touched |-> 0]
              /\ total' = 0
              /\ age' = [i \in DOMAIN age |-> 0]
              /\ stepDt' = [i \in DOMAIN stepDt |-> {}]
           \/ /\ d.kind = "spawn"
              /\ store' = SpawnKernel(store, d.u, backend, options.maxParticles)
              /\ LET range == SpawnIndices(backend, d.u.spawnIndexStart,
                                           d.u.spawnIndexEnd, options.maxParticles)
                 IN /\ Touch(range, d.count)
                    /\ age' = [i \in DOMAIN age |-> IF i \in range THEN 0 ELSE age[i]]
                    /\ stepDt' = [i \in DOMAIN stepDt |->
                                    IF i \in range THEN {} ELSE stepDt[i]]
              /\ UNCHANGED initialized
           \/ /\ d.kind = "update"
              /\ \E noise \in [DOMAIN store -> noises] :
                    store' = UpdateKernel(store, d.u, noise)
              /\ age' = [i \in DOMAIN age |-> Min2(age[i] + 1, MaxAge)]
              /\ stepDt' = [i \in DOMAIN stepDt |-> stepDt[i] \cup {d.u.deltaTime}]
              /\ UNCHANGED <<initialized, touched, total>>
  /\ UNCHANGED <<options, backend, gateVars, extVars, nextIndex, uniforms, isEmitting, emitAccumulator,
                 lastOp, sumCounts, emVars>>

(***************************************************************************)
(* EmitterController (emitter.ts) and the system's own autoEmit timer.     *)
(* An optional flag is the empty set when undefined, {b} when it is b.     *)
(***************************************************************************)
\* flag ?? d
Coalesce(flag, d) == IF flag = {} THEN d ELSE CHOOSE b \in flag : TRUE
\* number ?? d
NumOr(value, d) == IF Absent(value) THEN d ELSE value.v

DefaultEmitterOptions ==
  [ loop |-> {}, delay |-> Undef, autoStart |-> {}, emitCount |-> Num(1),
    direction |-> Undef, localDirection |-> {}, overrides |-> <<>> ]

\* new EmitterController(options)
NewEmitter(opts) ==
  [ system |-> FALSE, isEmitting |-> Coalesce(opts.autoStart, TRUE), emitAccumulator |-> 0,
    hasEmittedOnce |-> FALSE, options |-> opts ]

NoLast == [who |-> "none", op |-> "none", pre |-> <<>>, delta |-> 0, spawned |-> FALSE,
           gap |-> 0]
NoEmHist == [last |-> NoLast, oneShot |-> 0, since |-> 0]
Other(who) == [NoLast EXCEPT !.who = who, !.op = "other"]
Rearmed == [NoEmHist EXCEPT !.last = Other("emitter")]

\* the emitter part of the initial state
WithEmitter(opts) == emitter = NewEmitter(opts) /\ emHist = NoEmHist

\* setSystem(system): link to a particle system, or to null
SetSystem(linked) ==
  /\ emitter' = [emitter EXCEPT !.system = linked]
  /\ emHist' = [emHist EXCEPT !.last = Other("emitter")]
  /\ UNCHANGED <<sysVars, gateVars, extVars, poolVars, histVars>>

\* updateOptions(partial): merge; a defined autoStart sets isEmitting and, when
\* true, re-arms the controller as start() does
UpdateOptions(partial) ==
  LET merged == partial @@ emitter.options
      given == "autoStart" \in DOMAIN partial /\ partial.autoStart # {}
      autoStart == Coalesce(partial.autoStart, TRUE)
  IN /\ emitter' = IF given
                   THEN IF autoStart
                        THEN [emitter EXCEPT !.options = merged, !.isEmitting = TRUE,
                                             !.hasEmittedOnce = FALSE, !.emitAccumulator = 0]
                        ELSE [emitter EXCEPT !.options = merged, !.isEmitting = FALSE]
                   ELSE [emitter EXCEPT !.options = merged]
     /\ emHist' = IF given /\ autoStart THEN Rearmed
                  ELSE [emHist EXCEPT !.last = Other("emitter")]
     /\ UNCHANGED <<sysVars, gateVars, extVars, poolVars, histVars>>

\* doEmit with a system linked and no orientation or emit-time overrides given:
\* the configured overrides, with the configured direction when there is one
DoEmit(pos, seed) ==
  LET dir == emitter.options.direction
      mergedOverrides == emitter.options.overrides
      finalOverrides == IF Absent(dir) THEN mergedOverrides
                        ELSE ("direction" :> dir) @@ mergedOverrides
      emitCount == NumOr(emitter.options.emitCount, 10)
  IN SpawnCall(pos, emitCount, Overrides(finalOverrides), seed)

\* update's early returns: not emitting, or not looping and already emitted
\* (and a variant without the second)
ActiveIgnoringOnce(e) == e.isEmitting
Active(e) == e.isEmitting /\ ~(~Coalesce(e.options.loop, TRUE) /\ e.hasEmittedOnce)

\* update's emission test, on the accumulator after delta was added (and a
\* variant that asks for more than delay)
DueStrict(delay, acc) == IF delay <= 0 THEN TRUE ELSE acc > delay
Due(delay, acc) == IF delay <= 0 THEN TRUE ELSE acc >= delay

\* EmitterController.update(delta, worldPosition)
EmitterUpdate(delta, pos, seed) ==
  LET loop == Coalesce(emitter.options.loop, TRUE)
      delay == NumOr(emitter.options.delay, 0)
      active == Active(emitter)
      acc == emitter.emitAccumulator + delta
      due == Due(delay, acc)
      success == active /\ due /\ emitter.system
      after == IF ~active \/ delay <= 0 THEN emitter.emitAccumulator
               ELSE IF due THEN acc - delay ELSE acc
  IN /\ acc <= MaxAcc
     /\ emitter' = [emitter EXCEPT !.emitAccumulator = after,
                                   !.hasEmittedOnce = emitter.hasEmittedOnce \/ success]
     /\ IF success THEN DoEmit(pos, seed)
        ELSE UNCHANGED <<sysVars, gateVars, restVars, poolVars, histVars>>
     /\ UNCHANGED <<isEmitting, emitAccumulator, handed>>
     /\ emHist' = [ last |-> [who |-> "emitter", op |-> "update", pre |-> emitter,
                              delta |-> delta, spawned |-> success,
                              gap |-> Min2(emHist.since + delta, MaxAcc)],
                    oneShot |-> IF success /\ ~loop THEN Min2(emHist.oneShot + 1, 2)
                                ELSE emHist.oneShot,
                    since |-> IF success THEN 0 ELSE Min2(emHist.since + delta, MaxAcc) ]

\* EmitterController.start()
EmitterStart ==
  /\ emitter' = [emitter EXCEPT !.isEmitting = TRUE, !.hasEmittedOnce = FALSE,
                                !.emitAccumulator = 0]
  /\ emHist' = [Rearmed EXCEPT !.last.op = "start"]
  /\ UNCHANGED <<sysVars, gateVars, extVars, poolVars, histVars>>

\* EmitterController.stop()
EmitterStop ==
  /\ emitter' = [emitter EXCEPT !.isEmitting = FALSE]
  /\ emHist' = [emHist EXCEPT !.last = Other("emitter")]
  /\ UNCHANGED <<sysVars, gateVars, extVars, poolVars, histVars>>

\* VFXParticleSystem.autoEmit(delta)
AutoEmit(delta, seed) ==
  LET currentDelay == options.delay
      acc == emitAccumulator + delta
      due == IF currentDelay = 0 THEN TRUE ELSE acc >= currentDelay
      spawns == isEmitting /\ due
      after == IF ~isEmitting \/ currentDelay = 0 THEN emitAccumulator
               ELSE IF due THEN acc - currentDelay ELSE acc
  IN /\ acc <= MaxAcc
     /\ emitAccumulator' = after
     /\ IF spawns THEN SpawnCall(options.position, options.emitCount, NoOverrides, seed)
        ELSE UNCHANGED <<options, backend, gateVars, restVars, initialized, nextIndex, uniforms,
                         poolVars, histVars>>
     /\ UNCHANGED <<isEmitting, emitter, handed>>
     /\ emHist' = [emHist EXCEPT
          !.last = [who |-> "system", op |-> "update",
                    pre |-> [isEmitting |-> isEmitting, emitAccumulator |-> emitAccumulator],
                    delta |-> delta, spawned |-> spawns, gap |-> 0]]

\* VFXParticleSystem.start()
Start ==
  /\ isEmitting' = TRUE
  /\ emitAccumulator' = 0
  /\ emHist' = [emHist EXCEPT !.last = Other("system")]
  /\ UNCHANGED <<options, backend, gateVars, extVars, initialized, nextIndex, uniforms, poolVars,
                 histVars, emitter>>

\* VFXParticleSystem.stop()
Stop ==
  /\ isEmitting' = FALSE
  /\ emHist' = [emHist EXCEPT !.last = Other("system")]
  /\ UNCHANGED <<options, backend, gateVars, extVars, initialized, nextIndex, uniforms, emitAccumulator,
                 poolVars, histVars, emitter>>

(***************************************************************************)
(* The vanilla wrapper (class VFXParticles of the vanilla package).  It    *)
(* owns a scene group, a configuration and at most one particle system.    *)
(* A system it has constructed is a pool record: the control state of a    *)
(* VFXParticleSystem (flags, ring cursor, dispatches in flight) and the    *)
(* raw props its uniforms were last written from.  pools[id] is the id-th  *)
(* system constructed; 0 stands for null.  The wrapper is built without    *)
(* the debug option.                                                       *)
(***************************************************************************)
Bool(b) == [t |-> "bool", v |-> b]

\* JavaScript truthiness of a value
Truthy(x) ==
  /\ ~Absent(x)
  /\ ~(x.t = "num" /\ x.v = 0)
  /\ ~(x.t = "bool" /\ ~x.v)

\* obj[k], undefined when the key is missing
Prop(obj, k) == IF k \in DOMAIN obj THEN obj[k] ELSE Undef

\* new VFXParticles(renderer, options): the backend test is made here and
\* nowhere else; the fallback object joins the group only when disabled
NewWrapper(webgpu, fallback) ==
  [ disabled |-> ~webgpu,
    fallbackAttached |-> ~webgpu /\ fallback,
    attached |-> {},
    system |-> 0,
    isEmitting |-> TRUE,
    emitAccumulator |-> 0,
    initialized |-> FALSE,
    pending |-> <<>> ]

\* a === b for two values of one key, and key by key for two records of props
SameValue(a, b) == a.t = b.t /\ (Absent(a) \/ a.v = b.v)
SameProps(c, d) == DOMAIN c = DOMAIN d /\ \A k \in DOMAIN c : SameValue(c[k], d[k])
SamePool(p, q) == [p EXCEPT !.props = <<>>] = [q EXCEPT !.props = <<>>]
                    /\ SameProps(p.props, q.props)
SamePools(ps, qs) == Len(ps) = Len(qs) /\ \A i \in DOMAIN ps : SamePool(ps[i], qs[i])

NoCall == [op |-> "none", call |-> "none", disabled |-> FALSE, changed |-> FALSE, calls |-> 0]

\* the record of the wrapper call now made: the flag it found, and whether it
\* changed the wrapper, its configuration or the systems
Called(op) ==
  /\ wlast.calls < MaxWrapperCalls
  /\ wlast' = [op |-> op, call |-> op, disabled |-> wrapper.disabled,
               changed |-> \/ wrapper' # wrapper
                           \/ ~SameProps(config', config)
                           \/ ~SamePools(pools', pools),
               calls |-> wlast.calls + 1]

\* no wrapper takes part
NoWrapper ==
  /\ wrapper = NewWrapper(TRUE, FALSE)
  /\ pools = <<>>
  /\ wlast = NoCall

\* the last emit call of a controller: its arguments, the options it found and
\* the overrides it handed to spawn
NoEmit == [call |-> "none", quat |-> "none", given |-> NoOverrides, options |-> <<>>,
           spawned |-> FALSE, count |-> 0, out |-> NoOverrides, calls |-> 0]

\* the last curve operation: its input and its result
NoCurve == [op |-> "none", x |-> 0, data |-> <<>>, y |-> 0, baked |-> <<>>,
            mask |-> 0, bin |-> <<>>, result |-> <<>>]

(***************************************************************************)
(* The store of named particle systems (useVFXStore.js).  `particles` is a *)
(* plain object: a name that is not an own key is looked up on             *)
(* Object.prototype.  A ref is what a caller registers: null, undefined,   *)
(* the handle of a particle system (it has spawn), or some other object.   *)
(***************************************************************************)
StoreNames == {"sparks", "smoke", "", "constructor"}
ObjectPrototypeKeys == {"constructor"}
AbsentRef == [kind |-> "undefined", id |-> 0]
NullRef == [kind |-> "null", id |-> 0]
SystemRef(id) == [kind |-> "system", id |-> id]
PlainRef == [kind |-> "object", id |-> 0]
BuiltinRef == [kind |-> "function", id |-> 0]
TruthyRef(ref) == ref.kind \notin {"undefined", "null"}
\* particles: {}
NoParticles == [name \in StoreNames |-> AbsentRef]
NoStoreCall == [op |-> "none", name |-> "", result |-> FALSE, forwarded |-> <<>>,
                options |-> <<>>, ever |-> {}]
\* get().particles[name]
Lookup(ps, name) ==
  IF ps[name] # AbsentRef THEN ps[name]
  ELSE IF name \in ObjectPrototypeKeys THEN BuiltinRef
  ELSE AbsentRef
\* particles?.spawn
HasSpawn(ref) == ref.kind = "system"
\* a destructuring default: it replaces undefined only
OrDefault(value, d) == IF value.t = "undef" THEN d ELSE value
\* { x = 0, y = 0, z = 0, count = 20, overrides = null } = {}
SpawnArguments(o) ==
  << OrDefault(o.x, Num(0)), OrDefault(o.y, Num(0)), OrDefault(o.z, Num(0)),
     OrDefault(o.count, Num(20)), OrDefault(o.overrides, Null) >>

\* registerParticles(name, ref)
RegisterParticles(name, ref) ==
  /\ particles' = IF name = "" \/ ~TruthyRef(ref) THEN particles
                  ELSE [particles EXCEPT ![name] = ref]
  /\ storeCall' = [op |-> "register", name |-> name, result |-> FALSE, forwarded |-> <<>>,
                   options |-> <<>>,
                   ever |-> IF name = "" \/ ~TruthyRef(ref) THEN storeCall.ever
                            ELSE storeCall.ever \cup {name}]
  /\ UNCHANGED <<sysVars, poolVars, histVars, emVars, gateVars, wrapVars, handed, curve, react, scene>>

\* unregisterParticles(name)
UnregisterParticles(name) ==
  /\ particles' = [particles EXCEPT ![name] = AbsentRef]
  /\ storeCall' = [op |-> "unregister", name |-> name, result |-> FALSE,
                   forwarded |-> <<>>, options |-> <<>>, ever |-> storeCall.ever]
  /\ UNCHANGED <<sysVars, poolVars, histVars, emVars, gateVars, wrapVars, handed, curve, react, scene>>

\* what emit(name, options) returns and the spawn calls it makes
\* (and a variant that asks only whether the name has a value)
EmitOutcomeAnyValue(ps, name, o) ==
  IF ~TruthyRef(Lookup(ps, name))
  THEN [result |-> FALSE, forwarded |-> <<>>]
  ELSE [result |-> TRUE,
        forwarded |-> <<[to |-> Lookup(ps, name), args |-> SpawnArguments(o)]>>]
EmitOutcome(ps, name, o) ==
  IF ~HasSpawn(Lookup(ps, name))
  THEN [result |-> FALSE, forwarded |-> <<>>]
  ELSE [result |-> TRUE,
        forwarded |-> <<[to |-> Lookup(ps, name), args |-> SpawnArguments(o)]>>]

\* emit(name, options)
StoreEmit(name, o) ==
  /\ storeCall' = [op |-> "emit", name |-> name,
                   result |-> EmitOutcome(particles, name, o).result,
                   forwarded |-> EmitOutcome(particles, name, o).forwarded,
                   options |-> o, ever |-> storeCall.ever]
  /\ UNCHANGED <<sysVars, poolVars, histVars, emVars, gateVars, wrapVars, handed, curve,
                 particles, react, scene>>

\* the React component is not mounted
NoReact == [mounted |-> FALSE, activeMaxParticles |-> 0, system |-> 0, prevMaterial |-> 0,
            unmountSystem |-> 0, pending |-> <<>>]

\* the components of a scene that register under one name: per owner its
\* systemRef (0 is null) and whether it is mounted, the systems constructed so
\* far, the handle the emitter's controller holds (0 is null), and the system
\* the controller's last frame spawned into
Owners == {1, 2}
NoScene == [ systemRef |-> [o \in Owners |-> 0], mounted |-> [o \in Owners |-> FALSE],
             systems |-> <<>>, link |-> 0, last |-> [op |-> "none", to |-> 0] ]

ExtIdle ==
  /\ NoWrapper /\ handed = NoEmit /\ curve = NoCurve
  /\ particles = NoParticles /\ storeCall = NoStoreCall /\ react = NoReact
  /\ scene = NoScene

\* new VFXParticleSystem(renderer, cfg)
NewPool(cfg) ==
  [ features |-> ResolveFeatures(cfg),
    maxParticles |-> NumOr(Prop(cfg, "maxParticles"), 10000),
    delay |-> NumOr(Prop(cfg, "delay"), 0),
    emitCount |-> NumOr(Prop(cfg, "emitCount"), 1),
    emitting |-> IF Absent(Prop(cfg, "autoStart")) THEN TRUE ELSE Prop(cfg, "autoStart").v,
    emitAccumulator |-> 0,
    initialized |-> FALSE,
    nextIndex |-> 0,
    inflight |-> 0,
    disposed |-> FALSE,
    materialDisposed |-> FALSE,
    props |-> cfg ]

\* VFXParticleSystem.spawn on a pool
PoolSpawn(p, count) ==
  IF ~p.initialized THEN p
  ELSE [p EXCEPT !.nextIndex = EndIdx(p.nextIndex, count, p.maxParticles),
                 !.inflight = @ + 1]

\* VFXParticleSystem.update on a pool
PoolUpdate(p) == IF ~p.initialized THEN p ELSE [p EXCEPT !.inflight = @ + 1]

\* VFXParticleSystem.clear on a pool
PoolClear(p) == [p EXCEPT !.inflight = @ + 1, !.nextIndex = 0]

\* VFXParticleSystem.start and stop on a pool
PoolStart(p) == [p EXCEPT !.emitting = TRUE, !.emitAccumulator = 0]
PoolStop(p) == [p EXCEPT !.emitting = FALSE]

\* VFXParticleSystem.dispose on a pool
PoolDispose(p) ==
  [p EXCEPT !.initialized = FALSE, !.nextIndex = 0, !.disposed = TRUE,
            !.materialDisposed = TRUE]

\* a system the wrapper no longer refers to: nothing reads its props, timers or
\* cursor again, so what is kept of it is its flags and its dispatches in flight
Unreferenced(p) ==
  [ features |-> ResolveFeatures(DefaultConfig), maxParticles |-> p.maxParticles,
    delay |-> 0, emitCount |-> 0, emitting |-> FALSE, emitAccumulator |-> 0,
    initialized |-> p.initialized, nextIndex |-> 0, inflight |-> p.inflight,
    disposed |-> p.disposed, materialDisposed |-> p.materialDisposed, props |-> <<>> ]

\* this.system = s: the system referred to until now, if any, is dropped
Drop(ps, id) == IF id = 0 THEN ps ELSE [ps EXCEPT ![id] = Unreferenced(ps[id])]

\* the dispatches a call may add to a pool fit the device queue
Room(p, n) == p.inflight + n <= MaxInflight

\* recreateSystem() up to its await: the old system leaves the group and is
\* dropped without dispose; a new one is constructed from cfg and its init awaited
RecreateSystem(w, cfg, cont) ==
  /\ Len(pools) < MaxPools
  /\ pools' = Append(Drop(pools, w.system), NewPool(cfg))
  /\ wrapper' = [w EXCEPT !.system = 0,
                          !.attached = w.attached \ {w.system},
                          !.pending = Append(w.pending, [id |-> Len(pools) + 1,
                                                         cont |-> cont])]

\* recreateSystem() after its await: s.init() has resolved, the new system is
\* installed and attached; init() then sets the wrapper's flag
RecreateDone ==
  /\ wrapper.pending # <<>>
  /\ LET h == Head(wrapper.pending)
     IN /\ pools' = [Drop(pools, wrapper.system) EXCEPT ![h.id].initialized = TRUE]
        /\ wrapper' = [wrapper EXCEPT
                         !.pending = Tail(wrapper.pending),
                         !.system = h.id,
                         !.attached = wrapper.attached \cup {h.id},
                         !.emitAccumulator = 0,
                         !.initialized = IF h.cont = "init" THEN TRUE ELSE @]
  /\ wlast' = [wlast EXCEPT !.op = "recreated"]
  /\ UNCHANGED <<sysVars, poolVars, histVars, emVars, gateVars, handed, otherVars>>

\* init() (and a variant that does not look at the disabled flag)
WrapperInitUnguarded ==
  /\ IF wrapper.initialized
     THEN UNCHANGED <<wrapper, pools>>
     ELSE RecreateSystem(wrapper, config, "init")
  /\ UNCHANGED <<sysVars, poolVars, histVars, emVars, gateVars, handed, otherVars>>
  /\ Called("init")

WrapperInit ==
  /\ IF wrapper.disabled \/ wrapper.initialized
     THEN UNCHANGED <<wrapper, pools>>
     ELSE RecreateSystem(wrapper, config, "init")
  /\ UNCHANGED <<sysVars, poolVars, histVars, emVars, gateVars, handed, otherVars>>
  /\ Called("init")

\* update(delta)
WrapperUpdate(delta) ==
  /\ IF wrapper.disabled THEN UNCHANGED <<wrapper, pools>>
     ELSE IF wrapper.system = 0 THEN UNCHANGED <<wrapper, pools>>
     ELSE IF ~pools[wrapper.system].initialized THEN UNCHANGED <<wrapper, pools>>
     ELSE LET p == pools[wrapper.system]
              acc == wrapper.emitAccumulator + delta
              due == wrapper.isEmitting /\ (p.delay = 0 \/ acc >= p.delay)
              acc1 == IF ~wrapper.isEmitting \/ p.delay = 0 THEN wrapper.emitAccumulator
                      ELSE IF acc >= p.delay THEN acc - p.delay ELSE acc
              p1 == IF due THEN PoolSpawn(p, p.emitCount) ELSE p
          IN /\ Room(p, 2)
             /\ acc1 <= MaxAcc
             /\ wrapper' = [wrapper EXCEPT !.emitAccumulator = acc1]
             /\ pools' = [pools EXCEPT ![wrapper.system] = PoolUpdate(p1)]
  /\ UNCHANGED <<sysVars, poolVars, histVars, emVars, gateVars, handed, otherVars>>
  /\ Called("update")

\* dispose()
WrapperDispose ==
  /\ IF wrapper.system # 0
     THEN /\ pools' = [pools EXCEPT ![wrapper.system] = Unreferenced(PoolDispose(@))]
          /\ wrapper' = [wrapper EXCEPT !.attached = @ \ {wrapper.system},
                                        !.system = 0, !.initialized = FALSE]
     ELSE /\ wrapper' = [wrapper EXCEPT !.initialized = FALSE]
          /\ UNCHANGED pools
  /\ UNCHANGED <<sysVars, poolVars, histVars, emVars, gateVars, handed, otherVars>>
  /\ Called("dispose")

\* spawn(x, y, z, count, overrides), count given or not
WrapperSpawn(count) ==
  /\ IF wrapper.disabled THEN UNCHANGED pools
     ELSE IF wrapper.system = 0 THEN UNCHANGED pools
     ELSE LET p == pools[wrapper.system]
          IN /\ Room(p, 1)
             /\ pools' = [pools EXCEPT ![wrapper.system] =
                            PoolSpawn(p, IF Absent(count) THEN p.emitCount ELSE count.v)]
  /\ UNCHANGED <<wrapper, sysVars, poolVars, histVars, emVars, gateVars, handed, otherVars>>
  /\ Called("spawn")

\* start()
WrapperStart ==
  /\ IF wrapper.disabled THEN UNCHANGED <<wrapper, pools>>
     ELSE /\ wrapper' = [wrapper EXCEPT !.isEmitting = TRUE, !.emitAccumulator = 0]
          /\ pools' = IF wrapper.system # 0
                      THEN [pools EXCEPT ![wrapper.system] = PoolStart(@)]
                      ELSE pools
  /\ UNCHANGED <<sysVars, poolVars, histVars, emVars, gateVars, handed, otherVars>>
  /\ Called("start")

\* stop()
WrapperStop ==
  /\ IF wrapper.disabled THEN UNCHANGED <<wrapper, pools>>
     ELSE /\ wrapper' = [wrapper EXCEPT !.isEmitting = FALSE]
          /\ pools' = IF wrapper.system # 0
                      THEN [pools EXCEPT ![wrapper.system] = PoolStop(@)]
                      ELSE pools
  /\ UNCHANGED <<sysVars, poolVars, histVars, emVars, gateVars, handed, otherVars>>
  /\ Called("stop")

\* clear()
WrapperClear ==
  /\ IF wrapper.disabled THEN UNCHANGED pools
     ELSE IF wrapper.system = 0 THEN UNCHANGED pools
     ELSE /\ Room(pools[wrapper.system], 1)
          /\ pools' = [pools EXCEPT ![wrapper.system] = PoolClear(@)]
  /\ UNCHANGED <<wrapper, sysVars, poolVars, histVars, emVars, gateVars, handed, otherVars>>
  /\ Called("clear")

CurveKeys ==
  {"fadeSizeCurve", "fadeOpacityCurve", "velocityCurve", "rotationSpeedCurve",
   "curveTexturePath"}

\* applyUniformUpdates: the colour fallbacks it applies to newValues first
ColorFallbacks(newValues, cfg) ==
  LET n1 == IF "colorStart" \in DOMAIN newValues /\ Truthy(newValues.colorStart)
               /\ ~Truthy(Prop(cfg, "colorEnd"))
            THEN Merge(newValues, [colorEnd |-> Null])
            ELSE newValues
  IN IF "colorEnd" \in DOMAIN n1 /\ ~Truthy(n1.colorEnd)
     THEN Merge(n1, [colorStart |->
            IF ~Absent(Prop(n1, "colorStart")) THEN n1.colorStart
            ELSE IF ~Absent(Prop(cfg, "colorStart")) THEN cfg.colorStart
            ELSE Arr(<<"white">>)])
     ELSE n1

\* applyUniformUpdates on the installed system: updateUniformsPartial, then
\* setDelay, setEmitCount and the autoStart switch
ApplyToPool(p, newValues) ==
  LET p1 == [p EXCEPT !.props = Merge(p.props, newValues)]
      p2 == IF "delay" \in DOMAIN newValues
            THEN [p1 EXCEPT !.delay = NumOr(newValues.delay, 0)] ELSE p1
      p3 == IF "emitCount" \in DOMAIN newValues
            THEN [p2 EXCEPT !.emitCount = NumOr(newValues.emitCount, 1)] ELSE p2
  IN IF Prop(newValues, "autoStart").t = "undef" THEN p3
     ELSE IF Truthy(newValues.autoStart) THEN PoolStart(p3) ELSE PoolStop(p3)

ApplyUniformUpdates(values) ==
  IF wrapper.system = 0 THEN UNCHANGED <<wrapper, pools>>
  ELSE LET newValues == ColorFallbacks(values, config')
       IN /\ pools' = [pools EXCEPT ![wrapper.system] = ApplyToPool(@, newValues)]
          /\ wrapper' = IF Prop(newValues, "autoStart").t = "undef" THEN wrapper
                        ELSE [wrapper EXCEPT !.isEmitting = newValues.autoStart.v]

\* setProps(newValues), without the geometry keys of the debug panel
WrapperSetProps(newValues) ==
  /\ IF wrapper.disabled THEN UNCHANGED <<config, wrapper, pools>>
     ELSE /\ config' = Merge(config, newValues)
          /\ IF /\ wrapper.system # 0
                /\ NeedsRecreation(pools[wrapper.system].features, newValues, config')
             THEN RecreateSystem(wrapper, config', "none")
             ELSE IF DOMAIN newValues \cap CurveKeys # {}
             THEN RecreateSystem(wrapper, config', "none")
             ELSE ApplyUniformUpdates(newValues)
  /\ UNCHANGED <<sysVars, poolVars, histVars, emVars, features, gate, handed, otherVars>>
  /\ Called("setProps")

\* the device completes the oldest dispatch made on a pool
PoolDispatchDone(id) ==
  /\ pools[id].inflight > 0
  /\ pools' = [pools EXCEPT ![id].inflight = @ - 1]
  /\ UNCHANGED <<wrapper, wlast, sysVars, poolVars, histVars, emVars, gateVars, handed, otherVars>>

(***************************************************************************)
(* The React component VFXParticles (part_005).  `system` is the value of  *)
(* the useMemo, prevMaterial the system whose material prevMaterialRef (and *)
(* prevRenderObjectRef) holds, unmountSystem the system the unmount        *)
(* cleanup closed over, pending the systems whose init() has not resolved. *)
(* The component is given autoStart = false and no name or debug option.   *)
(***************************************************************************)
ReactConfig(maxParticles) ==
  Merge(DefaultConfig, [maxParticles |-> Num(maxParticles), autoStart |-> Bool(FALSE)])

\* the first render and its effects
ReactMounted(maxParticles) ==
  /\ pools = <<NewPool(ReactConfig(maxParticles))>>
  /\ react = [mounted |-> TRUE, activeMaxParticles |-> maxParticles, system |-> 1,
              prevMaterial |-> 1, unmountSystem |-> 1, pending |-> <<1>>]

\* material.dispose() on the material of a system
MaterialDispose(p) == [p EXCEPT !.materialDisposed = TRUE]

\* a render with a new maxParticles prop and the effects that follow it: the
\* useMemo constructs a new system, init() is called on it, and the material
\* remembered from the previous system is disposed
ReactRender(maxParticles) ==
  /\ react.mounted
  /\ maxParticles # react.activeMaxParticles
  /\ Len(pools) < MaxPools
  /\ pools' = Append([Drop(pools, react.system) EXCEPT
                        ![react.prevMaterial] = MaterialDispose(@)],
                     NewPool(ReactConfig(maxParticles)))
  /\ react' = [react EXCEPT !.activeMaxParticles = maxParticles,
                            !.system = Len(pools) + 1,
                            !.prevMaterial = Len(pools) + 1,
                            !.pending = Append(@, Len(pools) + 1)]
  /\ UNCHANGED <<sysVars, poolVars, histVars, emVars, gateVars, wrapper, wlast, handed,
                 curve, particles, storeCall, scene>>

\* system.init() resolves
ReactInitDone ==
  /\ react.pending # <<>>
  /\ pools' = [pools EXCEPT ![Head(react.pending)].initialized = TRUE]
  /\ react' = [react EXCEPT !.pending = Tail(@)]
  /\ UNCHANGED <<sysVars, poolVars, histVars, emVars, gateVars, wrapper, wlast, handed,
                 curve, particles, storeCall, scene>>

\* the useFrame callback: update on an initialized system (emitting is false)
ReactFrame ==
  /\ react.mounted
  /\ pools[react.system].initialized
  /\ Room(pools[react.system], 1)
  /\ pools' = [pools EXCEPT ![react.system] = PoolUpdate(@)]
  /\ UNCHANGED <<sysVars, poolVars, histVars, emVars, gateVars, wrapper, wlast, handed,
                 otherVars>>

\* unmount: the cleanup of the mount effect disposes the system it closed over
ReactUnmount ==
  /\ react.mounted
  /\ pools' = [Drop(pools, react.system) EXCEPT
                 ![react.unmountSystem] = Unreferenced(PoolDispose(@))]
  /\ react' = [react EXCEPT !.mounted = FALSE]
  /\ UNCHANGED <<sysVars, poolVars, histVars, emVars, gateVars, wrapper, wlast, handed,
                 curve, particles, storeCall, scene>>

(***************************************************************************)
(* SpecRing: the ring-buffer cursor and the slots a spawn writes.          *)
(***************************************************************************)
Backends == {"gpu", "cpu"}
RingSeeds == {0}

Init_Ring ==
  /\ \E be \in Backends : Constructed(BaseOptions, be)
  /\ WithEmitter(DefaultEmitterOptions)
  /\ WithConfig(DefaultConfig)
  /\ ExtIdle

SpawnRing == \E count \in 0..MaxCount, seed \in RingSeeds : Spawn(Zero3, count, NoOverrides, seed)

RunRing == RunDispatch({Zero3})

Next_Ring == InitCall \/ SpawnRing \/ Clear \/ RunRing

SpecRing == Init_Ring /\ [][Next_Ring]_vars

\* the slots c, c+1, ..., c+count-1 taken modulo N
WrappingRange(c, count, n) == {(c + j) % n : j \in 0..(count - 1)}

\* C1: a spawn on an initialized pool of capacity N leaves the cursor at
\* (c + count) mod N, and the cursor is always the sum of the counts spawned
\* since it was last reset, modulo N.
C1_CursorAdvance ==
  /\ (lastOp.op = "spawn" /\ lastOp.live) =>
        nextIndex = (lastOp.c + lastOp.count) % options.maxParticles
  /\ nextIndex = sumCounts % options.maxParticles

\* a spawn that wrapped the cursor, after earlier spawns
C1_Witness ==
  /\ lastOp.op = "spawn" /\ lastOp.live
  /\ lastOp.count > 0
  /\ lastOp.c + lastOp.count > options.maxParticles
  /\ sumCounts > lastOp.count

\* C2: an executed spawn of `count` particles issued at cursor c has written
\* exactly the slots c, ..., c+count-1 modulo N and left every other slot as it was.
C2_SpawnWritesExactlyRange ==
  lastRun.kind = "spawn" =>
    \A i \in DOMAIN store :
      IF i \in WrappingRange(lastRun.u.spawnIndexStart, lastRun.count, options.maxParticles)
      THEN store[i] = SpawnParticle(i, lastRun.u)
      ELSE store[i] = lastRun.before[i]

\* C3: while the counts spawned in a round are at most N no slot has been
\* written twice, and when they are exactly N every slot has been written once.
C3_EachSlotOnce ==
  /\ total <= options.maxParticles => \A i \in DOMAIN touched : touched[i] <= 1
  /\ total = options.maxParticles => \A i \in DOMAIN touched : touched[i] = 1

(***************************************************************************)
(* SpecLife: the life of a particle under init, spawn, update and clear.   *)
(* Dispatches execute in issue order and no call reads the store, so the   *)
(* store takes the same values whether or not calls overlap; here a call   *)
(* is made once the dispatches before it have executed.                    *)
(***************************************************************************)
Idle == queue = <<>>

\* still particles emitted at the sentinel height, one to two seconds of life
StillOptions == [BaseOptions EXCEPT !.speed = Num(0), !.position = <<0, SentinelY, 0>>]
\* falling particles that bounce on a floor at the sentinel height
BounceOptions ==
  [BaseOptions EXCEPT !.lifetime = Arr(<<2, 4>>), !.gravity = <<0, -1, 0>>,
     !.collision = [on |-> TRUE, planeY |-> SentinelY, bounce |-> 1, friction |-> 1,
                    die |-> FALSE, sizeBasedGravity |-> 0]]
\* falling particles that die on a floor at height 0, with turbulence
DieOptions ==
  [BaseOptions EXCEPT !.lifetime = Arr(<<1, 3>>), !.gravity = <<0, -1, 0>>,
     !.turbulenceIntensity = 1,
     !.collision = [on |-> TRUE, planeY |-> 0, bounce |-> 0, friction |-> 0,
                    die |-> TRUE, sizeBasedGravity |-> 1]]
LifeOptions == <<BaseOptions, StillOptions, BounceOptions, DieOptions>>
LifeDeltas == {1, 2}
LifeSeeds == {0, 1}
LifeNoises == {<<0, -VelScale, 0>>}

Init_Life ==
  /\ \E k \in DOMAIN LifeOptions : Constructed(LifeOptions[k], "gpu")
  /\ WithEmitter(DefaultEmitterOptions)
  /\ WithConfig(DefaultConfig)
  /\ ExtIdle

SpawnLife == Idle /\ \E seed \in LifeSeeds : Spawn(options.position, 1, NoOverrides, seed)

UpdateLife == Idle /\ \E delta \in LifeDeltas : Update(delta)

RunLife == RunDispatch(LifeNoises)

InitLife == Idle /\ InitCall

ClearLife == Idle /\ Clear

Next_Life == InitLife \/ SpawnLife \/ UpdateLife \/ ClearLife \/ RunLife

SpecLife == Init_Life /\ [][Next_Life]_vars

AtSentinel(p) == p.position[2] = SentinelY * PosScale

Ceil(a, b) == (a + b - 1) \div b

ParamOptions ==
  << BaseOptions,
     [BaseOptions EXCEPT !.size = Arr(<<2, 4>>), !.gravity = <<0, -2, 0>>,
                         !.colorStart = <<"blue", "red">>, !.emitterShape = EmitterShapeCone,
                         !.emitterSurfaceOnly = TRUE, !.attractToCenter = TRUE] >>

ParamOverrides ==
  << NoOverrides,
     Overrides(<<>>),
     Overrides([size |-> Num(2), lifetime |-> Arr(<<2, 3>>), gravity |-> <<0, -1, 0>>,
                colorStart |-> <<"red">>, emitterSurfaceOnly |-> FALSE]),
     Overrides([speed |-> Arr(<<1, 2>>), direction |-> Num(1), startPosition |-> Arr(<<0, 1>>),
                colorEnd |-> <<"red", "blue">>, emitterShape |-> EmitterShapeSphere,
                emitterRadius |-> Num(1), emitterDirection |-> <<2, 0, 0>>,
                attractToCenter |-> FALSE]),
     Overrides([rotation |-> Arr(<<0, 1>>), emitterAngle |-> 0, emitterHeight |-> Arr(<<1, 2>>),
                size |-> Undef, gravity |-> <<0, -1, 0>>, emitterShape |-> EmitterShapeDisk]) >>

Init_Params ==
  /\ \E k \in DOMAIN ParamOptions : Constructed(ParamOptions[k], "gpu")
  /\ WithEmitter(DefaultEmitterOptions)
  /\ WithConfig(DefaultConfig)
  /\ ExtIdle

SpawnParams ==
  \E k \in DOMAIN ParamOverrides, count \in 1..2 : Spawn(Zero3, count, ParamOverrides[k], 0)

RunParams == RunDispatch({Zero3})

Next_Params == InitCall \/ SpawnParams \/ RunParams

SpecParams == Init_Params /\ [][Next_Params]_vars

\* the uniforms a spawn sets for its own dispatch, whatever the overrides
SpawnCells == {"spawnPosition", "spawnIndexStart", "spawnIndexEnd", "spawnSeed"}
\* every other uniform, the override-settable parameters among them
OverrideCells == DOMAIN uniforms \ SpawnCells

\* C5: when spawn(x, y, z, count, overrides) has returned, every uniform other
\* than the spawn position, range and seed holds the value it had before the call.
C5_OverridesRestored ==
  lastOp.op = "spawn" => \A k \in OverrideCells : uniforms[k] = lastOp.pre[k]

\* a spawn has returned whose dispatch was issued with overridden scalar,
\* vector and colour cells
C5_Witness ==
  /\ lastOp.op = "spawn" /\ lastOp.live
  /\ queue # <<>>
  /\ LET d == queue[Len(queue)]
     IN /\ d.kind = "spawn"
        /\ d.u.sizeMin # uniforms.sizeMin
        /\ d.u.gravity # uniforms.gravity
        /\ d.u.colorStart0 # uniforms.colorStart0
        /\ d.u.lifetimeMax # uniforms.lifetimeMax

\* C6: of two spawns issued back to back, each dispatch holds the persistent
\* uniforms overlaid by its own overrides only, and the second range starts
\* where the first ends.
C6_NoOverrideRace ==
  \A j \in 1..(Len(queue) - 1) :
    LET d1 == queue[j]
        d2 == queue[j + 1]
        alone1 == ApplySpawnOverrides(d1.pre, d1.ov).u
        alone2 == ApplySpawnOverrides(d1.pre, d2.ov).u
    IN (d1.kind = "spawn" /\ d2.kind = "spawn") =>
         /\ \A k \in OverrideCells : d1.u[k] = alone1[k] /\ d2.u[k] = alone2[k]
         /\ d2.u.spawnIndexStart = d1.u.spawnIndexEnd
         /\ d1.u.spawnIndexEnd = (d1.u.spawnIndexStart + d1.count) % options.maxParticles
         /\ d2.u.spawnIndexEnd = (d2.u.spawnIndexStart + d2.count) % options.maxParticles

\* two spawns in flight whose overrides touch the same cells with different values
C6_Witness ==
  /\ Len(queue) >= 2
  /\ \E j \in 1..(Len(queue) - 1) :
        LET d1 == queue[j]
            d2 == queue[j + 1]
        IN /\ d1.kind = "spawn" /\ d2.kind = "spawn"
           /\ ~d1.ov.isNull /\ ~d2.ov.isNull
           /\ d1.u.emitterShapeType # d2.u.emitterShapeType
           /\ d1.u.colorStart0 # d2.u.colorStart0
           /\ d1.u.gravity # uniforms.gravity
           /\ d2.u.emitterDir # uniforms.emitterDir
           /\ d2.u.gravity = uniforms.gravity

(***************************************************************************)
(* SpecEmitter: the emission timers of an EmitterController linked to the  *)
(* system, and of the system itself.  A call is made once the dispatches   *)
(* before it have executed.  The two timers share no field, so a behaviour *)
(* exercises one of them: the one called first.                            *)
(***************************************************************************)
Drives(who) == Idle /\ emHist.last.who \in {"none", who}

EmitterSystems == <<BaseOptions, [BaseOptions EXCEPT !.delay = 2, !.autoStart = FALSE]>>
EmitterCases ==
  << DefaultEmitterOptions,
     [DefaultEmitterOptions EXCEPT !.loop = {FALSE}, !.delay = Num(2), !.autoStart = {FALSE}],
     [DefaultEmitterOptions EXCEPT !.loop = {FALSE}, !.autoStart = {TRUE}] >>
EmitterPartials ==
  << [loop |-> {FALSE}], [loop |-> {}], [delay |-> Num(2)], [delay |-> Undef],
     [autoStart |-> {TRUE}] >>
EmitterDeltas == {1, 3}

Init_Emitter ==
  /\ \E k \in DOMAIN EmitterSystems : Constructed(EmitterSystems[k], "gpu")
  /\ \E k \in DOMAIN EmitterCases : WithEmitter(EmitterCases[k])
  /\ WithConfig(DefaultConfig)
  /\ ExtIdle

InitEmitter == Idle /\ InitCall

RunEmitter == RunDispatch({Zero3})

LinkEmitter == Drives("emitter") /\ \E linked \in BOOLEAN : SetSystem(linked)

OptionsEmitter ==
  Drives("emitter") /\ \E k \in DOMAIN EmitterPartials : UpdateOptions(EmitterPartials[k])

TickEmitter ==
  Drives("emitter") /\ \E delta \in EmitterDeltas : EmitterUpdate(delta, Zero3, 0)

StartEmitter == Drives("emitter") /\ EmitterStart

StopEmitter == Drives("emitter") /\ EmitterStop

TickSystem == Drives("system") /\ \E delta \in EmitterDeltas : AutoEmit(delta, 0)

StartSystem == Drives("system") /\ Start

StopSystem == Drives("system") /\ Stop

Next_Emitter ==
  \/ InitEmitter \/ RunEmitter
  \/ LinkEmitter \/ OptionsEmitter \/ TickEmitter \/ StartEmitter \/ StopEmitter
  \/ TickSystem \/ StartSystem \/ StopSystem

SpecEmitter == Init_Emitter /\ [][Next_Emitter]_vars

LastIsEmitterUpdate == emHist.last.who = "emitter" /\ emHist.last.op = "update"
LastIsAutoEmit == emHist.last.who = "system" /\ emHist.last.op = "update"

\* C7: EmitterController.update spawns nothing and leaves the controller as it
\* was when the controller is not emitting, or is not looping and has already
\* emitted; a controller emits through update at most once while not looping
\* between two (re)starts.
C7_UpdateNoOp ==
  /\ LastIsEmitterUpdate =>
        LET pre == emHist.last.pre
        IN (~pre.isEmitting \/ (~Coalesce(pre.options.loop, TRUE) /\ pre.hasEmittedOnce)) =>
             ~emHist.last.spawned /\ emitter = pre
  /\ emHist.oneShot <= 1

\* an update call on a linked, emitting, spent one-shot controller
C7_Witness ==
  /\ LastIsEmitterUpdate
  /\ emHist.oneShot = 1
  /\ LET pre == emHist.last.pre
     IN /\ pre.isEmitting /\ pre.system /\ pre.hasEmittedOnce
        /\ ~Coalesce(pre.options.loop, TRUE)
        /\ NumOr(pre.options.delay, 0) <= 0

GateConfigs ==
  << DefaultConfig,
     [DefaultConfig EXCEPT !.colorStart = Arr(<<"red", "blue">>),
                           !.rotation = Nested(Arr(<<0, 0>>), Arr(<<0, 1>>), Arr(<<0, 0>>)),
                           !.turbulence = Obj(1), !.attractors = Arr(<<1>>),
                           !.collision = Obj(0)] >>

GatePartials ==
  << [gravity |-> Num(1)],
     [maxParticles |-> Num(MaxParticles)],
     [shadow |-> Num(1), gravity |-> Null],
     [colorStart |-> Arr(<<"red", "blue">>)],
     [colorStart |-> Arr(<<"red">>)],
     [colorEnd |-> Arr(<<"blue">>)],
     [colorEnd |-> Null],
     [rotation |-> Num(0)],
     [rotation |-> Arr(<<0, 1>>)],
     [rotation |-> Arr(<<1>>)],
     [rotationSpeed |-> Nested(Arr(<<0, 0>>), Arr(<<1, 1>>), Arr(<<0, 0>>))],
     [rotationSpeed |-> Undef],
     [turbulence |-> Obj(0)],
     [turbulence |-> Obj(1)],
     [turbulence |-> Null, gravity |-> Num(1)],
     [attractors |-> Arr(<<>>)],
     [attractors |-> Arr(<<1>>)],
     [collision |-> Obj(0)],
     [collision |-> Null] >>

Init_Gate ==
  /\ Constructed(BaseOptions, "gpu")
  /\ WithEmitter(DefaultEmitterOptions)
  /\ \E k \in DOMAIN GateConfigs : WithConfig(GateConfigs[k])
  /\ ExtIdle

SetPropsGate == \E k \in DOMAIN GatePartials : SetProps(GatePartials[k])

Next_Gate == SetPropsGate

SpecGate == Init_Gate /\ [][Next_Gate]_vars

\* C10: needsRecreation answers true whenever a structural key is among the
\* changed keys or the features of the merged configuration differ from the
\* old features in any field; when it answers false, the merged configuration
\* needs the same per-particle arrays and the same update stages as before.
C10_GateConservative ==
  gate.called =>
    LET new == ResolveFeatures(config)
    IN /\ ((gate.keys \cap STRUCTURAL_KEYS # {}) \/ new # gate.old) => gate.result
       /\ ~gate.result =>
            /\ CreateStorageArrays(new) = CreateStorageArrays(gate.old)
            /\ UpdateStages(new) = UpdateStages(gate.old)

\* a change of the collision setting alone, which the gate sends to a rebuild
C10_Witness ==
  /\ gate.called
  /\ gate.keys = {"collision"}
  /\ ResolveFeatures(config).collision # gate.old.collision
  /\ [ResolveFeatures(config) EXCEPT !.collision = gate.old.collision] = gate.old
  /\ gate.result

(***************************************************************************)
(* Further properties of the pool, checked under SpecRing.                 *)
(***************************************************************************)
\* C11: when an init dispatch has executed (the one init() awaits, or the one
\* clear() issues) every slot is dead and at the sentinel height y = -1000;
\* clear() leaves the cursor at 0, and the first spawn of particles after a
\* reset starts at slot 0.
C11_ReinitDead ==
  /\ lastRun.kind = "init" =>
        \A i \in DOMAIN store : store[i].lifetime = 0 /\ AtSentinel(store[i])
  /\ lastOp.op = "clear" => nextIndex = 0
  /\ (lastOp.op = "spawn" /\ lastOp.live /\ sumCounts = lastOp.count) => lastOp.c = 0

\* the dispatch of a clear() has executed on a pool that held a live particle
\* and whose cursor had moved
C11_Witness ==
  /\ lastRun.kind = "init"
  /\ lastOp.op = "clear"
  /\ initialized
  /\ queue = <<>>
  /\ \E i \in DOMAIN store : lastRun.before[i].lifetime > 0
  /\ \A i \in DOMAIN store : store[i] = DeadSlot

(***************************************************************************)
(* SpecWrapper: a vanilla wrapper, built on a renderer with or without the *)
(* WebGPU backend, receives every call of its interface in any order while *)
(* the device completes initialisations and dispatches.                    *)
(***************************************************************************)
WrapperConfig == Merge(DefaultConfig, [delay |-> Num(1), emitCount |-> Num(1)])

WrapperPartials ==
  << [maxParticles |-> Num(1)],
     [fadeSizeCurve |-> Obj(1)],
     [gravity |-> Num(1), delay |-> Num(2), autoStart |-> Bool(FALSE),
      colorStart |-> Arr(<<"red">>)] >>

WrapperCounts == {Undef, Num(1)}

Init_Wrapper ==
  /\ Constructed(BaseOptions, "gpu")
  /\ WithEmitter(DefaultEmitterOptions)
  /\ config = WrapperConfig
  /\ features = ResolveFeatures(WrapperConfig)
  /\ gate = NoGate
  /\ \E webgpu \in BOOLEAN, fallback \in BOOLEAN : wrapper = NewWrapper(webgpu, fallback)
  /\ pools = <<>>
  /\ wlast = NoCall
  /\ handed = NoEmit
  /\ curve = NoCurve
  /\ particles = NoParticles
  /\ storeCall = NoStoreCall
  /\ react = NoReact
  /\ scene = NoScene

UpdateWrapper == WrapperUpdate(1)
SpawnWrapper == \E count \in WrapperCounts : WrapperSpawn(count)
SetPropsWrapper == \E k \in DOMAIN WrapperPartials : WrapperSetProps(WrapperPartials[k])
DeviceWrapper == \E id \in DOMAIN pools : PoolDispatchDone(id)

Next_Wrapper ==
  \/ WrapperInit
  \/ RecreateDone
  \/ UpdateWrapper
  \/ SpawnWrapper
  \/ WrapperStart
  \/ WrapperStop
  \/ WrapperClear
  \/ SetPropsWrapper
  \/ WrapperDispose
  \/ DeviceWrapper

SpecWrapper == Init_Wrapper /\ [][Next_Wrapper]_vars

\* C12: the disabled flag a wrapper was constructed with never changes; a
\* disabled wrapper has constructed no system, awaits none, has none installed
\* or attached and is not initialized, and every call made on it (init, update,
\* spawn, start, stop, clear, setProps) left the wrapper, its configuration and
\* the group, which holds at most the caller's fallback object, as they were.
C12_InertWithoutBackend ==
  /\ wlast.op # "none" => wrapper.disabled = wlast.disabled
  /\ wrapper.disabled =>
       /\ pools = <<>>
       /\ wrapper.system = 0
       /\ wrapper.pending = <<>>
       /\ wrapper.attached = {}
       /\ ~wrapper.initialized
       /\ ~wlast.changed
  /\ ~wrapper.disabled => ~wrapper.fallbackAttached

\* a disabled wrapper showing the fallback object, after a call of setProps
C12_Witness ==
  /\ wrapper.disabled
  /\ wrapper.fallbackAttached
  /\ wlast.op = "setProps"
(***************************************************************************)
(* The emit calls of EmitterController (emitAtPosition, emit, burst): the  *)
(* overrides and the direction they hand to spawn.  An orientation is one  *)
(* of a few rotations that map integer vectors to integer vectors; "none"  *)
(* is an orientation not supplied.                                         *)
(***************************************************************************)
Quaternions == {"none", "identity", "quarterZ"}

\* Vector3.applyQuaternion
ApplyQuaternion(v, quat) ==
  CASE quat = "identity" -> v
    [] quat = "quarterZ" -> <<-v[2], v[1], v[3]>>

\* transformDirectionByQuat: the two corners of the range are rotated and the
\* range is rebuilt axis by axis
TransformDirectionByQuat(dirRange, quat) ==
  LET r == dirRange.v
      minDir == ApplyQuaternion(<<r[1].v[1], r[2].v[1], r[3].v[1]>>, quat)
      maxDir == ApplyQuaternion(<<r[1].v[2], r[2].v[2], r[3].v[2]>>, quat)
  IN Nested(Arr(<<Min2(minDir[1], maxDir[1]), Max2(minDir[1], maxDir[1])>>),
            Arr(<<Min2(minDir[2], maxDir[2]), Max2(minDir[2], maxDir[2])>>),
            Arr(<<Min2(minDir[3], maxDir[3]), Max2(minDir[3], maxDir[3])>>))

\* doEmit / burst: the configured direction, in world space when localDirection
\* is set and an orientation is supplied
EmitDir(opts, quat) ==
  IF Coalesce(opts.localDirection, FALSE) /\ Truthy(opts.direction) /\ quat # "none"
  THEN TransformDirectionByQuat(opts.direction, quat)
  ELSE opts.direction

\* doEmit: the emit-time direction when there is one, else the configured one
FinalDir(opts, quat, emitOverrides) ==
  LET emitTimeDirection == IF emitOverrides.isNull THEN Undef
                           ELSE Prop(emitOverrides.o, "direction")
  IN IF Truthy(emitTimeDirection) /\ Coalesce(opts.localDirection, FALSE) /\ quat # "none"
     THEN TransformDirectionByQuat(emitTimeDirection, quat)
     ELSE IF Truthy(emitTimeDirection) THEN emitTimeDirection
     ELSE EmitDir(opts, quat)

\* doEmit: configured overrides, then the emit-time overrides without their
\* direction, then the final direction (and a variant merging the other way)
FinalOverridesConfiguredWin(opts, quat, emitOverrides) ==
  LET o == IF emitOverrides.isNull THEN <<>> ELSE emitOverrides.o
      emitOverridesWithoutDir == [k \in DOMAIN o \ {"direction"} |-> o[k]]
      mergedOverrides == Merge(emitOverridesWithoutDir, opts.overrides)
      finalDir == FinalDir(opts, quat, emitOverrides)
  IN IF Truthy(finalDir) THEN Merge(mergedOverrides, [direction |-> finalDir])
     ELSE mergedOverrides

FinalOverrides(opts, quat, emitOverrides) ==
  LET o == IF emitOverrides.isNull THEN <<>> ELSE emitOverrides.o
      emitOverridesWithoutDir == [k \in DOMAIN o \ {"direction"} |-> o[k]]
      mergedOverrides == Merge(opts.overrides, emitOverridesWithoutDir)
      finalDir == FinalDir(opts, quat, emitOverrides)
  IN IF Truthy(finalDir) THEN Merge(mergedOverrides, [direction |-> finalDir])
     ELSE mergedOverrides

\* burst: the configured overrides with the configured direction; an options
\* object without overrides hands them on as they are (none)
BurstOverrides(opts, quat) ==
  LET emitDir == EmitDir(opts, quat)
  IN IF Truthy(emitDir) THEN Overrides(Merge(opts.overrides, [direction |-> emitDir]))
     ELSE IF opts.overrides = <<>> THEN NoOverrides
     ELSE Overrides(opts.overrides)

\* an emit call that found no system linked returns false
NoSystemLinked(call, quat, emitOverrides) ==
  /\ ~emitter.system
  /\ handed.calls < MaxEmits
  /\ handed' = [call |-> call, quat |-> quat, given |-> emitOverrides,
                options |-> emitter.options, spawned |-> FALSE, count |-> 0,
                out |-> NoOverrides, calls |-> handed.calls + 1]
  /\ emHist' = [emHist EXCEPT !.last = Other("emitter")]
  /\ UNCHANGED <<sysVars, poolVars, histVars, gateVars, restVars, emitter>>

\* doEmit(worldPosition, worldQuaternion, emitOverrides)
DoEmitWith(call, pos, quat, emitOverrides, seed) ==
  \/ NoSystemLinked(call, quat, emitOverrides)
  \/ /\ emitter.system
     /\ handed.calls < MaxEmits
     /\ LET finalOverrides == Overrides(FinalOverrides(emitter.options, quat, emitOverrides))
            emitCount == NumOr(emitter.options.emitCount, 10)
        IN /\ SpawnCall(pos, emitCount, finalOverrides, seed)
           /\ handed' = [call |-> call, quat |-> quat, given |-> emitOverrides,
                         options |-> emitter.options, spawned |-> TRUE,
                         count |-> emitCount, out |-> finalOverrides,
                         calls |-> handed.calls + 1]
     /\ emHist' = [emHist EXCEPT !.last = Other("emitter")]
     /\ UNCHANGED <<isEmitting, emitAccumulator, emitter, restVars>>

\* emitAtPosition(worldPosition, worldQuaternion, emitOverrides)
EmitAtPosition(pos, quat, emitOverrides, seed) ==
  DoEmitWith("emitAtPosition", pos, quat, emitOverrides, seed)

\* emit(emitOverrides): the origin, no orientation
Emit(emitOverrides, seed) == DoEmitWith("emit", Zero3, "none", emitOverrides, seed)

\* burst(count, worldPosition, worldQuaternion)
Burst(count, pos, quat, seed) ==
  \/ NoSystemLinked("burst", quat, NoOverrides)
  \/ /\ emitter.system
     /\ handed.calls < MaxEmits
     /\ LET finalOverrides == BurstOverrides(emitter.options, quat)
        IN /\ SpawnCall(pos, count, finalOverrides, seed)
           /\ handed' = [call |-> "burst", quat |-> quat, given |-> NoOverrides,
                         options |-> emitter.options, spawned |-> TRUE,
                         count |-> count, out |-> finalOverrides,
                         calls |-> handed.calls + 1]
     /\ emHist' = [emHist EXCEPT !.last = Other("emitter")]
     /\ UNCHANGED <<isEmitting, emitAccumulator, emitter, restVars>>

(***************************************************************************)
(* SpecEmit: a controller, configured with or without overrides, direction *)
(* and localDirection, is linked to a system and asked to emit, with and   *)
(* without emit-time overrides and orientation.                            *)
(***************************************************************************)
DirUp == Nested(Arr(<<0, 0>>), Arr(<<1, 2>>), Arr(<<0, 0>>))
DirSide == Nested(Arr(<<1, 1>>), Arr(<<-1, 0>>), Arr(<<0, 0>>))

EmitCases ==
  << DefaultEmitterOptions,
     [DefaultEmitterOptions EXCEPT !.overrides = [size |-> Num(2), speed |-> Arr(<<1, 2>>)],
                                   !.direction = DirUp],
     [DefaultEmitterOptions EXCEPT !.overrides = [size |-> Num(2), direction |-> DirSide],
                                   !.localDirection = {TRUE}],
     [DefaultEmitterOptions EXCEPT !.overrides = [speed |-> Arr(<<1, 2>>)],
                                   !.direction = DirUp, !.localDirection = {TRUE},
                                   !.emitCount = Num(2)] >>

EmitOverrides ==
  << NoOverrides,
     Overrides([size |-> Num(1)]),
     Overrides([size |-> Undef, lifetime |-> Num(2), direction |-> DirSide]),
     Overrides([speed |-> Num(2), direction |-> Null]) >>

Init_Emit ==
  /\ Constructed(BaseOptions, "gpu")
  /\ \E k \in DOMAIN EmitCases : WithEmitter(EmitCases[k])
  /\ WithConfig(DefaultConfig)
  /\ ExtIdle

InitEmit == Idle /\ InitCall
RunEmit == RunDispatch({Zero3})
LinkEmit == Idle /\ \E linked \in BOOLEAN : SetSystem(linked)
EmitAtPositionEmit ==
  \E quat \in Quaternions, k \in DOMAIN EmitOverrides :
     Idle /\ EmitAtPosition(Zero3, quat, EmitOverrides[k], 0)
EmitEmit == \E k \in DOMAIN EmitOverrides : Idle /\ Emit(EmitOverrides[k], 0)
BurstEmit == \E quat \in Quaternions, count \in 1..2 : Idle /\ Burst(count, Zero3, quat, 0)

Next_Emit ==
  \/ InitEmit \/ RunEmit \/ LinkEmit
  \/ EmitAtPositionEmit \/ EmitEmit \/ BurstEmit

SpecEmit == Init_Emit /\ [][Next_Emit]_vars

\* the direction the claim asks for: the emit-time direction when one is given,
\* else the configured one, each rotated when localDirection is set and an
\* orientation is supplied
ExpectedDirection(h) ==
  LET given == IF h.given.isNull THEN Undef ELSE Prop(h.given.o, "direction")
      chosen == IF ~Absent(given) THEN given ELSE h.options.direction
  IN IF Absent(chosen) THEN chosen
     ELSE IF Coalesce(h.options.localDirection, FALSE) /\ h.quat # "none"
     THEN TransformDirectionByQuat(chosen, h.quat)
     ELSE chosen

\* C13: the overrides an emit call hands to spawn hold, for every key but
\* direction, the caller's per-emit value when the caller gave the key, else
\* the configured value, and no other keys; their direction is the emit-time
\* direction when one is given, else the configured direction, rotated by the
\* orientation when localDirection is set, else what the configured overrides
\* say about direction.
C13_OverridesMerged ==
  handed.spawned =>
    LET given == IF handed.given.isNull THEN <<>> ELSE handed.given.o
        configured == handed.options.overrides
        out == IF handed.out.isNull THEN <<>> ELSE handed.out.o
        dir == ExpectedDirection(handed)
    IN /\ DOMAIN out \ {"direction"} = (DOMAIN given \cup DOMAIN configured) \ {"direction"}
       /\ \A k \in DOMAIN out \ {"direction"} :
             SameValue(out[k], IF k \in DOMAIN given THEN given[k] ELSE configured[k])
       /\ IF ~Absent(dir) THEN "direction" \in DOMAIN out /\ SameValue(out.direction, dir)
          ELSE IF "direction" \in DOMAIN configured
          THEN "direction" \in DOMAIN out /\ SameValue(out.direction, configured.direction)
          ELSE "direction" \notin DOMAIN out

\* an emission with a key configured and given at emit time, an emit-time
\* direction, localDirection set and an orientation that turns the direction
C13_Witness ==
  /\ handed.spawned
  /\ handed.call = "emitAtPosition"
  /\ ~handed.given.isNull
  /\ "size" \in DOMAIN handed.given.o \cap DOMAIN handed.options.overrides
  /\ "direction" \in DOMAIN handed.given.o
  /\ ~Absent(handed.given.o.direction)
  /\ Coalesce(handed.options.localDirection, FALSE)
  /\ handed.quat = "quarterZ"
  /\ ~SameValue(handed.out.o.direction, handed.given.o.direction)
(***************************************************************************)
(* curves.ts: sampling and baking of curves, and the .bin file of the      *)
(* combined table.  x and y are held in twelfths.  A curve is null, an     *)
(* object without points, or an object with a list of points; a point has  *)
(* a pos <<x, y>> or none (<<>>); points carry no handles, and the x of    *)
(* the points that have a pos increase strictly.                           *)
(***************************************************************************)
CurveScale == 12
CURVE_BIN_MAGIC == 1178944512
CurveChannel == [SIZE |-> 1, OPACITY |-> 2, VELOCITY |-> 4, ROTATION_SPEED |-> 8]

NullCurve == [isNull |-> TRUE, hasPoints |-> FALSE, points |-> <<>>]
NoPoints == [isNull |-> FALSE, hasPoints |-> FALSE, points |-> <<>>]
CurveOf(points) == [isNull |-> FALSE, hasPoints |-> TRUE, points |-> points]
Point(x, y) == [pos |-> <<x, y>>]
NoPos == [pos |-> <<>>]
HasPos(p) == p.pos # <<>>

RECURSIVE BitLength(_)
BitLength(n) == IF n = 0 THEN 0 ELSE 1 + BitLength(n \div 2)
RECURSIVE Pow2(_)
Pow2(k) == IF k = 0 THEN 1 ELSE 2 * Pow2(k - 1)

\* a non-negative integer stored in a float array with a mantissa of the given
\* number of bits: kept if it fits, else rounded to nearest, ties to even
ToFloat(n, bits) ==
  IF BitLength(n) <= bits THEN n
  ELSE LET step == Pow2(BitLength(n) - bits)
           q == n \div step
           r == n % step
       IN IF 2 * r > step \/ (2 * r = step /\ q % 2 = 1) THEN (q + 1) * step
          ELSE q * step

\* a value stored into a Float32Array
ToFloat32(v) == IF v < 0 THEN -ToFloat(-v, 24) ELSE ToFloat(v, 24)

\* evaluateBezierSegment at the t the binary search of sampleCurveAtX ends on,
\* for two points without handles: x(t) and y(t) are the same cubic of t, so y
\* is linear in x between the points, and the search ends on an end point when
\* x lies outside the segment
SegmentY(x, p0, p1) ==
  LET x0 == p0.pos[1]
      x1 == p1.pos[1]
      xx == Max2(x0, Min2(x, x1))
  IN p0.pos[2] + ((p1.pos[2] - p0.pos[2]) * (xx - x0)) \div (x1 - x0)

\* sampleCurveAtX(x, points)
SampleCurveAtX(x, c) ==
  LET points == c.points
      n == Len(points)
  IN IF ~c.hasPoints \/ n < 2 THEN x
     ELSE IF ~HasPos(points[1]) \/ ~HasPos(points[n]) THEN x
     ELSE LET found == {i \in 1..(n - 1) :
                          /\ HasPos(points[i]) /\ HasPos(points[i + 1])
                          /\ x >= points[i].pos[1] /\ x <= points[i + 1].pos[1]}
              segmentIdx == IF found = {} THEN 1
                            ELSE CHOOSE i \in found : \A j \in found : i <= j
              p0 == points[segmentIdx]
              p1 == points[segmentIdx + 1]
          IN IF ~HasPos(p0) \/ ~HasPos(p1) THEN x
             ELSE Max2(-(CurveScale \div 2),
                       Min2(CurveScale + CurveScale \div 2, SegmentY(x, p0, p1)))

\* the default linear curve 1 -> 0 written by bakeCurveToArray
LinearFadeOut(resolution) ==
  [i \in 1..resolution |->
     ToFloat32(CurveScale - ((i - 1) * CurveScale) \div (resolution - 1))]

\* bakeCurveToArray(curveData, resolution)
BakeCurveToArray(c, resolution) ==
  IF c.isNull \/ ~c.hasPoints \/ Len(c.points) < 2 THEN LinearFadeOut(resolution)
  ELSE IF ~HasPos(c.points[1]) \/ ~HasPos(c.points[Len(c.points)])
  THEN LinearFadeOut(resolution)
  ELSE [i \in 1..resolution |->
          ToFloat32(SampleCurveAtX(((i - 1) * CurveScale) \div (resolution - 1), c))]

\* rgba[i * 4 + channel] = data of the channel at i
Interleave(d) ==
  [k \in 1..(4 * CURVE_RESOLUTION) |-> d[((k - 1) % 4) + 1][((k - 1) \div 4) + 1]]

\* createCombinedCurveTexture: the rgba table of four curves
CreateCombinedCurveTexture(cs) ==
  Interleave([ch \in 1..4 |-> BakeCurveToArray(cs[ch], CURVE_RESOLUTION)])

\* buildCurveTextureBin (and a variant that always writes a full mask)
BuildCurveTextureBinFullMask(cs) ==
  <<ToFloat32(CURVE_BIN_MAGIC), ToFloat32(15), ToFloat32(0), ToFloat32(0)>>
    \o [k \in 1..(4 * CURVE_RESOLUTION) |-> ToFloat32(CreateCombinedCurveTexture(cs)[k])]

BuildCurveTextureBin(cs) ==
  LET channelMask ==
        (IF cs[1].isNull THEN 0 ELSE CurveChannel.SIZE)
          + (IF cs[2].isNull THEN 0 ELSE CurveChannel.OPACITY)
          + (IF cs[3].isNull THEN 0 ELSE CurveChannel.VELOCITY)
          + (IF cs[4].isNull THEN 0 ELSE CurveChannel.ROTATION_SPEED)
  IN <<ToFloat32(CURVE_BIN_MAGIC), ToFloat32(channelMask), ToFloat32(0), ToFloat32(0)>>
       \o [k \in 1..(4 * CURVE_RESOLUTION) |-> ToFloat32(CreateCombinedCurveTexture(cs)[k])]

\* a fetched file: the response status, whether its byte length is a multiple
\* of four, and its content read as floats
File(ok, aligned, floats) == [ok |-> ok, aligned |-> aligned, floats |-> floats]

LoadError == [error |-> TRUE, rgba |-> <<>>, activeChannels |-> 0]

\* loadCurveTextureFromPath, on the file the path leads to (and a variant that
\* takes any file long enough for the legacy layout)
LoadCurveTextureAtLeast(file) ==
  LET allFloats == file.floats
      newFormatSize == 4 + CURVE_RESOLUTION * 4
      oldFormatSize == CURVE_RESOLUTION * 4
  IN IF ~file.ok \/ ~file.aligned THEN LoadError
     ELSE IF Len(allFloats) = newFormatSize /\ allFloats[1] = CURVE_BIN_MAGIC
     THEN [error |-> FALSE, rgba |-> SubSeq(allFloats, 5, Len(allFloats)),
           activeChannels |-> allFloats[2]]
     ELSE IF Len(allFloats) >= oldFormatSize
     THEN [error |-> FALSE, rgba |-> allFloats,
           activeChannels |-> CurveChannel.SIZE + CurveChannel.OPACITY
                                + CurveChannel.VELOCITY + CurveChannel.ROTATION_SPEED]
     ELSE LoadError

LoadCurveTextureFromPath(file) ==
  LET allFloats == file.floats
      newFormatSize == 4 + CURVE_RESOLUTION * 4
      oldFormatSize == CURVE_RESOLUTION * 4
  IN IF ~file.ok \/ ~file.aligned THEN LoadError
     ELSE IF Len(allFloats) = newFormatSize /\ allFloats[1] = CURVE_BIN_MAGIC
     THEN [error |-> FALSE, rgba |-> SubSeq(allFloats, 5, Len(allFloats)),
           activeChannels |-> allFloats[2]]
     ELSE IF Len(allFloats) = oldFormatSize
     THEN [error |-> FALSE, rgba |-> allFloats,
           activeChannels |-> CurveChannel.SIZE + CurveChannel.OPACITY
                                + CurveChannel.VELOCITY + CurveChannel.ROTATION_SPEED]
     ELSE LoadError

\* a call of sampleCurveAtX
SampleCall(x, c) ==
  /\ curve' = [NoCurve EXCEPT !.op = "sample", !.x = x, !.data = c,
                              !.y = SampleCurveAtX(x, c)]
  /\ UNCHANGED <<sysVars, poolVars, histVars, emVars, gateVars, wrapVars, handed,
                 particles, storeCall, react, scene>>

\* a call of bakeCurveToArray
BakeCall(c) ==
  /\ curve' = [NoCurve EXCEPT !.op = "bake", !.data = c,
                              !.baked = BakeCurveToArray(c, CURVE_RESOLUTION)]
  /\ UNCHANGED <<sysVars, poolVars, histVars, emVars, gateVars, wrapVars, handed,
                 particles, storeCall, react, scene>>

\* buildCurveTextureBin, the buffer written to a file, the file loaded back
BuildAndLoad(cs) ==
  /\ curve' = [NoCurve EXCEPT !.op = "build", !.data = cs,
                              !.bin = BuildCurveTextureBin(cs),
                              !.result = LoadCurveTextureFromPath(
                                            File(TRUE, TRUE, BuildCurveTextureBin(cs)))]
  /\ UNCHANGED <<sysVars, poolVars, histVars, emVars, gateVars, wrapVars, handed,
                 particles, storeCall, react, scene>>

\* a call of loadCurveTextureFromPath on some file
LoadCall(file) ==
  /\ curve' = [NoCurve EXCEPT !.op = "load", !.data = file, !.bin = file.floats,
                              !.result = LoadCurveTextureFromPath(file)]
  /\ UNCHANGED <<sysVars, poolVars, histVars, emVars, gateVars, wrapVars, handed,
                 particles, storeCall, react, scene>>

(***************************************************************************)
(* SpecCurves: curves, well-formed and not, are sampled, baked and written *)
(* to files, and files of several lengths are loaded.                      *)
(***************************************************************************)
CurveInputs ==
  << NullCurve,
     NoPoints,
     CurveOf(<<>>),
     CurveOf(<<Point(0, 12)>>),
     CurveOf(<<Point(0, 0), Point(12, 12)>>),
     CurveOf(<<Point(0, 12), Point(6, 0), Point(12, 18)>>),
     CurveOf(<<Point(0, 12), NoPos, Point(12, 0)>>),
     CurveOf(<<NoPos, Point(12, 0)>>) >>

CurveXs == {0, 3, 6, 12}

Zeros(n) == [i \in 1..n |-> 0]
Header(magic, mask) == <<magic, mask, 0, 0>>

CurveFiles ==
  << File(TRUE, TRUE, Zeros(4 * CURVE_RESOLUTION)),
     File(TRUE, TRUE, Header(CURVE_BIN_MAGIC, 5) \o Zeros(4 * CURVE_RESOLUTION)),
     File(TRUE, TRUE, Header(CURVE_BIN_MAGIC, 0) \o Zeros(4 * CURVE_RESOLUTION)),
     File(TRUE, TRUE, Header(0, 5) \o Zeros(4 * CURVE_RESOLUTION)),
     File(TRUE, TRUE, Header(CURVE_BIN_MAGIC, 5) \o Zeros(4 * CURVE_RESOLUTION + 1)),
     File(TRUE, TRUE, Header(CURVE_BIN_MAGIC, 5) \o Zeros(4 * CURVE_RESOLUTION - 1)),
     File(TRUE, TRUE, Zeros(4 * CURVE_RESOLUTION + 1)),
     File(TRUE, TRUE, Zeros(4 * CURVE_RESOLUTION - 1)),
     File(TRUE, TRUE, <<>>),
     File(TRUE, FALSE, Zeros(4 * CURVE_RESOLUTION)),
     File(FALSE, TRUE, Zeros(4 * CURVE_RESOLUTION)) >>

Init_Curves ==
  /\ Constructed(BaseOptions, "gpu")
  /\ WithEmitter(DefaultEmitterOptions)
  /\ WithConfig(DefaultConfig)
  /\ ExtIdle

\* a behaviour applies one curve operation to one input
SampleCurves == curve.op = "none" /\ \E x \in CurveXs, k \in DOMAIN CurveInputs : SampleCall(x, CurveInputs[k])
BakeCurves == curve.op = "none" /\ \E k \in DOMAIN CurveInputs : BakeCall(CurveInputs[k])
BuildCurves ==
  curve.op = "none" /\ \E k1 \in DOMAIN CurveInputs, k2 \in DOMAIN CurveInputs,
     k3 \in DOMAIN CurveInputs, k4 \in DOMAIN CurveInputs :
       BuildAndLoad(<<CurveInputs[k1], CurveInputs[k2], CurveInputs[k3], CurveInputs[k4]>>)
LoadCurves == curve.op = "none" /\ \E k \in DOMAIN CurveFiles : LoadCall(CurveFiles[k])

Next_Curves == SampleCurves \/ BakeCurves \/ BuildCurves \/ LoadCurves

SpecCurves == Init_Curves /\ [][Next_Curves]_vars

\* a curve that is absent, has fewer than two points or has a point without pos
Degenerate(c) ==
  \/ c.isNull \/ ~c.hasPoints \/ Len(c.points) < 2
  \/ \E i \in DOMAIN c.points : ~HasPos(c.points[i])

\* C14 as stated: sampling a degenerate curve at x gives 1 - x, and baking it
\* gives 1 - i / (resolution - 1) for every i.
C14_DegenerateIsFadeOut ==
  /\ (curve.op = "sample" /\ Degenerate(curve.data)) => curve.y = CurveScale - curve.x
  /\ (curve.op = "bake" /\ Degenerate(curve.data)) =>
        curve.baked = LinearFadeOut(CURVE_RESOLUTION)

AllChannels ==
  CurveChannel.SIZE + CurveChannel.OPACITY + CurveChannel.VELOCITY
    + CurveChannel.ROTATION_SPEED

\* a file that can be read as floats
Readable(file) == file.ok /\ file.aligned

\* C15: the loader produces a table from exactly two layouts: a file of
\* 4 + 4 * resolution floats that starts with the magic number, whose table is
\* what follows the four header floats and whose channel mask is the second
\* header float; and a file of exactly 4 * resolution floats, whose table is the
\* whole file and for which all four channels are active.  Every other file
\* raises an error.
C15_LoaderLayouts ==
  curve.op = "load" =>
    LET file == curve.data
        n == Len(file.floats)
        r == curve.result
    IN IF Readable(file) /\ n = 4 + 4 * CURVE_RESOLUTION /\ file.floats[1] = CURVE_BIN_MAGIC
       THEN /\ ~r.error
            /\ r.rgba = SubSeq(file.floats, 5, n)
            /\ r.activeChannels = file.floats[2]
       ELSE IF Readable(file) /\ n = 4 * CURVE_RESOLUTION
       THEN /\ ~r.error
            /\ r.rgba = file.floats
            /\ r.activeChannels = AllChannels
       ELSE r.error

\* a legacy file loaded with all four channels active
C15_Witness ==
  /\ curve.op = "load"
  /\ Len(curve.data.floats) = 4 * CURVE_RESOLUTION
  /\ ~curve.result.error
  /\ curve.result.activeChannels = AllChannels
  /\ Len(curve.result.rgba) = 4 * CURVE_RESOLUTION

\* is the bit of a channel set in a mask
ChannelActive(mask, channel) == (mask \div channel) % 2 = 1

\* C16: the file built from four curves, each null or not, loads without
\* error; the table loaded equals the combined table of the four curves, and
\* the mask loaded has the bit of SIZE, OPACITY, VELOCITY, ROTATION_SPEED set
\* exactly when the first, second, third, fourth curve is not null.
C16_RoundTrip ==
  curve.op = "build" =>
    LET cs == curve.data
        r == curve.result
    IN /\ ~r.error
       /\ r.rgba = CreateCombinedCurveTexture(cs)
       /\ ChannelActive(r.activeChannels, CurveChannel.SIZE) = ~cs[1].isNull
       /\ ChannelActive(r.activeChannels, CurveChannel.OPACITY) = ~cs[2].isNull
       /\ ChannelActive(r.activeChannels, CurveChannel.VELOCITY) = ~cs[3].isNull
       /\ ChannelActive(r.activeChannels, CurveChannel.ROTATION_SPEED) = ~cs[4].isNull
       /\ r.activeChannels \in 0..AllChannels

\* a round trip of a null size curve, a well-formed opacity curve, a null
\* velocity curve and a rotation-speed curve without points
C16_Witness ==
  /\ curve.op = "build"
  /\ curve.data[1].isNull
  /\ ~Degenerate(curve.data[2])
  /\ curve.data[3].isNull
  /\ ~curve.data[4].isNull /\ ~curve.data[4].hasPoints
  /\ ~curve.result.error
  /\ curve.result.activeChannels = CurveChannel.OPACITY + CurveChannel.ROTATION_SPEED
  /\ curve.result.rgba # Interleave([ch \in 1..4 |-> LinearFadeOut(CURVE_RESOLUTION)])

(***************************************************************************)
(* SpecAttract: particles attracted to the spawn point.  The emitter is a  *)
(* box around the spawn point; there is no gravity, friction, turbulence,  *)
(* attractor or collision, and every particle is emitted at the configured *)
(* position.                                                               *)
(***************************************************************************)
AttractOptions ==
  [BaseOptions EXCEPT !.attractToCenter = TRUE,
     !.startPosition = Nested(Arr(<<-1, 1>>), Arr(<<1, 2>>), Arr(<<0, 2>>)),
     !.position = <<1, 2, 3>>]
AttractDeltas == {1, 2}
AttractSeeds == {0, 1, 2}

Init_Attract ==
  /\ Constructed(AttractOptions, "gpu")
  /\ WithEmitter(DefaultEmitterOptions)
  /\ WithConfig(DefaultConfig)
  /\ ExtIdle

InitAttract == Idle /\ InitCall

SpawnAttract == Idle /\ \E seed \in AttractSeeds : Spawn(options.position, 1, NoOverrides, seed)

UpdateAttract == Idle /\ \E delta \in AttractDeltas : Update(delta)

RunAttract == RunDispatch(LifeNoises)

Next_Attract == InitAttract \/ SpawnAttract \/ UpdateAttract \/ RunAttract

SpecAttract == Init_Attract /\ [][Next_Attract]_vars

\* the point the particles were emitted at, in position units
SpawnPoint == VScale(options.position, PosScale)
\* slot i held a live particle before the last executed update and a dead one after
DiedNow(i) ==
  /\ lastRun.kind = "update"
  /\ lastRun.before[i].lifetime > 0
  /\ store[i].lifetime <= 0
\* the distance a particle covers along axis k in the last executed update
FrameTravel(i, k) == Abs(store[i].velocity[k]) * lastRun.u.deltaTime * SpeedDen

PreDeath(i) ==
  VAdd(lastRun.before[i].position,
       VScale(store[i].velocity, lastRun.u.deltaTime * SpeedDen))

\* C19 as stated: after the update in which its lifetime reached <= 0, a
\* particle is still at its pre-death position, not at the sentinel, for the
\* render that follows.
C19_VisibleAfterDeath ==
  \A i \in DOMAIN store : DiedNow(i) => store[i].position = PreDeath(i)

\* C19 (amended): lifetime decay is the last step of the update: a particle
\* alive before the update is moved by it, and then its lifetime is reduced;
\* when that takes the lifetime to <= 0 the same update sets it to 0 and puts
\* the particle at the sentinel height, so the render that follows does not
\* show it at its pre-death position.  A dead particle is left as it is.
C19_MovedThenParked ==
  lastRun.kind = "update" =>
    \A i \in DOMAIN store :
      LET was == lastRun.before[i]
          life == was.lifetime - was.fadeRate * lastRun.u.deltaTime
      IN /\ was.lifetime <= 0 => store[i] = was
         /\ was.lifetime > 0 /\ life > 0 =>
              store[i].lifetime = life /\ store[i].position = PreDeath(i)
         /\ was.lifetime > 0 /\ life <= 0 =>
              /\ store[i].lifetime = 0
              /\ store[i].position = <<PreDeath(i)[1], SentinelY * PosScale, PreDeath(i)[3]>>

\* a particle that moved in x in the update in which it died, and whose
\* pre-death position was not at the sentinel height
C19_Witness ==
  \E i \in DOMAIN store :
    /\ DiedNow(i)
    /\ store[i].position[1] # lastRun.before[i].position[1]
    /\ PreDeath(i)[2] > 0
    /\ AtSentinel(store[i])

(***************************************************************************)
(* SpecStore: registrations, unregistrations and emits on the store, in    *)
(* any order.                                                              *)
(***************************************************************************)
StoreRefs == {NullRef, AbsentRef, SystemRef(1), SystemRef(2), PlainRef}
NoOptions == [x |-> Undef, y |-> Undef, z |-> Undef, count |-> Undef, overrides |-> Undef]
StoreOptions ==
  << NoOptions,
     [NoOptions EXCEPT !.x = Num(1), !.y = Num(2), !.z = Num(3), !.count = Num(5),
                       !.overrides = Obj(1)],
     [NoOptions EXCEPT !.y = Num(1), !.count = Num(0)],
     [NoOptions EXCEPT !.x = Null, !.overrides = Null] >>

Init_Store ==
  /\ Constructed(BaseOptions, "gpu")
  /\ WithEmitter(DefaultEmitterOptions)
  /\ WithConfig(DefaultConfig)
  /\ ExtIdle

RegisterStore == \E name \in StoreNames, ref \in StoreRefs : RegisterParticles(name, ref)
UnregisterStore == \E name \in StoreNames : UnregisterParticles(name)
EmitStore == \E name \in StoreNames, k \in DOMAIN StoreOptions : StoreEmit(name, StoreOptions[k])

Next_Store == RegisterStore \/ UnregisterStore \/ EmitStore

SpecStore == Init_Store /\ [][Next_Store]_vars

\* a particle system is registered under the name
Registered(name) == particles[name].kind = "system"
\* the value handed on for a field of the options: the caller's, or the
\* documented default when the caller gave none
Given(o, key, default) == IF o[key] = Undef THEN Num(default) ELSE o[key]

\* C18: emit(name, {x, y, z, count, overrides}) returns true exactly when a
\* particle system is registered under name at the time of the call; it then
\* makes exactly one call, spawn(x, y, z, count, overrides) with the defaults
\* 0, 0, 0, 20 and null for what was not given, on the system registered
\* under that name; otherwise it returns false and makes no call.
C18_EmitForwardsOnce ==
  storeCall.op = "emit" =>
    LET o == storeCall.options
    IN /\ storeCall.result <=> Registered(storeCall.name)
       /\ storeCall.result =>
            /\ Len(storeCall.forwarded) = 1
            /\ storeCall.forwarded[1].to = particles[storeCall.name]
            /\ storeCall.forwarded[1].args[1] = Given(o, "x", 0)
            /\ storeCall.forwarded[1].args[2] = Given(o, "y", 0)
            /\ storeCall.forwarded[1].args[3] = Given(o, "z", 0)
            /\ storeCall.forwarded[1].args[4] = Given(o, "count", 20)
            /\ storeCall.forwarded[1].args[5] = (IF o.overrides = Undef THEN Null ELSE o.overrides)
       /\ ~storeCall.result => storeCall.forwarded = <<>>

\* an emit with no options on a name registered a second time, forwarded to
\* the system registered last, while another name that was once registered
\* is not any more
C18_Witness ==
  /\ storeCall.op = "emit" /\ storeCall.result
  /\ storeCall.options = NoOptions
  /\ storeCall.forwarded[1].to = SystemRef(2)
  /\ storeCall.forwarded[1].args[4] = Num(20)
  /\ \E name \in storeCall.ever : ~Registered(name)

(***************************************************************************)
(* SpecReact: the React component under renders with a changed             *)
(* maxParticles, frames, unmount and the device completing dispatches.     *)
(***************************************************************************)
ReactSizes == {1, 2, 3}

Init_React ==
  /\ Constructed(BaseOptions, "gpu")
  /\ WithEmitter(DefaultEmitterOptions)
  /\ WithConfig(DefaultConfig)
  /\ wrapper = NewWrapper(TRUE, FALSE) /\ wlast = NoCall
  /\ handed = NoEmit /\ curve = NoCurve
  /\ particles = NoParticles /\ storeCall = NoStoreCall /\ scene = NoScene
  /\ \E n \in ReactSizes : ReactMounted(n)

RenderReact == \E n \in ReactSizes : ReactRender(n)
DeviceReact == \E id \in DOMAIN pools : PoolDispatchDone(id)

Next_React == RenderReact \/ ReactInitDone \/ ReactFrame \/ ReactUnmount \/ DeviceReact

SpecReact == Init_React /\ [][Next_React]_vars

\* C20 as stated: while the component is mounted, nothing a system owns has
\* been disposed while a dispatch of that system is in flight (a replaced
\* system is only dropped; dispose runs on unmount).
C20_NoDisposeInFlight ==
  react.mounted =>
    \A id \in DOMAIN pools : ~(pools[id].materialDisposed /\ pools[id].inflight > 0)

(***************************************************************************)
(* The vanilla wrapper under calls that overlap its reconstructions        *)
(* (SpecWrapper).                                                          *)
(***************************************************************************)
\* no reconstruction is pending and a system is installed
Settled == ~wrapper.disabled /\ wrapper.pending = <<>> /\ wrapper.system # 0

\* C21 as stated: once every pending reconstruction has completed, the
\* installed system was built from the latest merged configuration: it has
\* the configured capacity and the features of that configuration.
C21_LatestConfigLive ==
  Settled =>
    /\ pools[wrapper.system].maxParticles = NumOr(Prop(config, "maxParticles"), 10000)
    /\ pools[wrapper.system].features = ResolveFeatures(config)

\* C22 as stated: once every pending reconstruction has completed, the group
\* holds exactly one render object, that of the installed system.
C22_OneRenderObject ==
  Settled => wrapper.attached = {wrapper.system}

\* C23 as stated: when an initialization dispatch resolves and the last call
\* made on the wrapper is dispose(), the wrapper is still not initialized, has
\* no system installed and no render object attached.
C23_DisposeIsFinal ==
  (wlast.call = "dispose" /\ wlast.op = "recreated") =>
    /\ ~wrapper.initialized
    /\ wrapper.system = 0
    /\ wrapper.attached = {}

(***************************************************************************)
(* The update kernel on dead slots and at the collision plane (SpecLife).  *)
(***************************************************************************)
\* C24: an executed update leaves every slot whose lifetime was <= 0 before
\* it exactly as it was, in every attribute; and no executed dispatch other
\* than a spawn takes a slot's lifetime from <= 0 to a positive value.
C24_DeadSlotsUntouched ==
  /\ lastRun.kind = "update" =>
       \A i \in DOMAIN store :
         lastRun.before[i].lifetime <= 0 => store[i] = lastRun.before[i]
  /\ lastRun.kind # "none" =>
       \A i \in DOMAIN store :
         (lastRun.before[i].lifetime <= 0 /\ store[i].lifetime > 0) => lastRun.kind = "spawn"

\* an update executed over a slot whose particle had died (it still has its
\* fade rate) and a slot whose particle was alive and moved
C24_Witness ==
  /\ lastRun.kind = "update"
  /\ \E i, j \in DOMAIN store :
       /\ lastRun.before[i].lifetime <= 0
       /\ lastRun.before[i].fadeRate > 0
       /\ lastRun.before[j].lifetime > 0
       /\ store[j].position # lastRun.before[j].position

(***************************************************************************)
(* SpecCollide: particles meeting the collision plane.  Besides the        *)
(* bouncing and the dying configuration of SpecLife there is one whose     *)
(* particles leave sideways and downwards from the plane itself, bounce    *)
(* with factor 2 and lose their horizontal velocity (friction 0).          *)
(***************************************************************************)
SkidOptions ==
  [BaseOptions EXCEPT !.lifetime = Arr(<<2, 4>>), !.gravity = <<0, -1, 0>>,
     !.direction = Nested(Arr(<<1, 1>>), Arr(<<-1, -1>>), Arr(<<-1, -1>>)),
     !.collision = [on |-> TRUE, planeY |-> 0, bounce |-> 2, friction |-> 0,
                    die |-> FALSE, sizeBasedGravity |-> 0]]
CollideOptions == <<BounceOptions, DieOptions, SkidOptions, BaseOptions>>

Init_Collide ==
  /\ \E k \in DOMAIN CollideOptions : Constructed(CollideOptions[k], "gpu")
  /\ WithEmitter(DefaultEmitterOptions)
  /\ WithConfig(DefaultConfig)
  /\ ExtIdle

InitCollide == Idle /\ InitCall
SpawnCollide == Idle /\ \E seed \in LifeSeeds : Spawn(options.position, 1, NoOverrides, seed)
UpdateCollide == Idle /\ \E delta \in LifeDeltas : Update(delta)
RunCollide == RunDispatch(LifeNoises)

Next_Collide == InitCollide \/ SpawnCollide \/ UpdateCollide \/ RunCollide

SpecCollide == Init_Collide /\ [][Next_Collide]_vars

\* the velocity and the position the last executed update gave the particle
\* of slot i before the plane test: gravity, then turbulence, then integration
NoiseNow == CHOOSE n \in LifeNoises : TRUE
VelocityBeforePlane(i) ==
  LET was == lastRun.before[i]
      u == lastRun.u
      fallen == VAdd(was.velocity,
                     VScale(u.gravity,
                            u.deltaTime * (Tenth + was.size * u.sizeBasedGravity) * LifeScale))
  IN IF u.turbulenceIntensity > 0 \/ u.attractorCount > 0
     THEN VAdd(fallen, VScale(NoiseNow, u.deltaTime))
     ELSE fallen
PositionBeforePlane(i) ==
  VAdd(lastRun.before[i].position,
       VScale(VelocityBeforePlane(i),
              lastRun.u.deltaTime * SpeedScale(lastRun.u, lastRun.before[i].lifetime)))
Crossed(i) ==
  /\ lastRun.u.collisionEnabled > 0
  /\ PositionBeforePlane(i)[2] < lastRun.u.collisionPlaneY * PosScale

\* C25: the plane test of an update sees the position that update has
\* integrated.  After an update with collision active no live particle is
\* below planeY.  A particle that was alive and whose integrated position is
\* below the plane is dead at the sentinel with lifetime 0 in die mode;
\* otherwise its velocity is (vx * friction, |vy| * bounce, vz * friction)
\* and, if it has not faded out in the same update, its y is planeY and its x
\* and z are the integrated ones.  A particle that did not cross keeps its
\* integrated velocity and position.
C25_PlaneSeesIntegratedPosition ==
  lastRun.kind = "update" =>
    \A i \in DOMAIN store :
      LET u == lastRun.u
          v == VelocityBeforePlane(i)
          q == PositionBeforePlane(i)
          now == store[i]
      IN lastRun.before[i].lifetime > 0 =>
           /\ (u.collisionEnabled > 0 /\ now.lifetime > 0) =>
                now.position[2] >= u.collisionPlaneY * PosScale
           /\ (Crossed(i) /\ u.collisionDie > 0) =>
                now.lifetime = 0 /\ AtSentinel(now)
           /\ (Crossed(i) /\ ~(u.collisionDie > 0)) =>
                /\ now.velocity = << v[1] * u.collisionFriction,
                                     Abs(v[2]) * u.collisionBounce,
                                     v[3] * u.collisionFriction >>
                /\ now.velocity[2] >= 0
                /\ now.position[1] = q[1] /\ now.position[3] = q[3]
                /\ now.lifetime > 0 => now.position[2] = u.collisionPlaneY * PosScale
           /\ ~Crossed(i) =>
                /\ now.velocity = v
                /\ now.lifetime > 0 => now.position = q

\* a particle with horizontal and downward velocity that crossed the plane in
\* the last update and lives on: it is on the plane, moving up, with its
\* horizontal velocity taken away by friction 0
C25_Witness ==
  /\ lastRun.kind = "update"
  /\ \E i \in DOMAIN store :
       /\ lastRun.before[i].lifetime > 0
       /\ Crossed(i)
       /\ lastRun.u.collisionDie = 0
       /\ VelocityBeforePlane(i)[1] # 0
       /\ VelocityBeforePlane(i)[2] < 0
       /\ store[i].lifetime > 0
       /\ store[i].velocity[1] = 0
       /\ store[i].velocity[2] > 0

(***************************************************************************)
(* The one-shot flag of a controller linked to a pool that is constructed  *)
(* and handed out before its init() has completed (SpecEmitter).           *)
(***************************************************************************)
\* C26: a non-looping emitter does not lose its single emission: an update
\* call sets hasEmittedOnce only when the spawn it made reached an
\* initialized pool, so an update made while the linked pool is not yet
\* initialized leaves the controller armed.
C26_OneShotOnlyByRealEmission ==
  (LastIsEmitterUpdate /\ emitter.hasEmittedOnce /\ ~emHist.last.pre.hasEmittedOnce) =>
    lastOp.op = "spawn" /\ lastOp.live


(***************************************************************************)
(* The Vue components of a scene (tres-vfx): two VFXParticles components   *)
(* given the same name, and a VFXEmitter linked to that name.  A system is *)
(* represented by its lifecycle: the flag _initialized, whether its init() *)
(* is still awaiting its dispatch, whether dispose() was called on it,     *)
(* whether initSystem has replaced it, and whether a spawn call has taken  *)
(* effect on it.  The renderer is ready and is a WebGPU renderer.  The     *)
(* handle registered for the id-th system is SystemRef(id): its spawn      *)
(* closes over that system.                                                *)
(***************************************************************************)
SceneName == "sparks"

\* createSystem(): new VFXParticleSystem(...), and system.init() called on it
NewSystem(o) ==
  [ owner |-> o, initialized |-> FALSE, pending |-> TRUE, disposed |-> FALSE,
    replaced |-> FALSE, spawned |-> FALSE ]

\* initSystem() of the component o: the old system is marked uninitialized and
\* its name unregistered; a new system is created, init() is called on it and
\* not awaited, and its handle is registered under the name
InitSystem(o) ==
  LET oldSystem == scene.systemRef[o]
      id == Len(scene.systems) + 1
      marked == IF oldSystem # 0
                THEN [scene.systems EXCEPT ![oldSystem].initialized = FALSE,
                                           ![oldSystem].replaced = TRUE]
                ELSE scene.systems
  IN /\ Len(scene.systems) < MaxSystems
     /\ scene' = [scene EXCEPT !.systems = Append(marked, NewSystem(o)),
                               !.systemRef[o] = id,
                               !.mounted[o] = TRUE,
                               !.last = [op |-> "initSystem", to |-> 0]]
     /\ particles' = [particles EXCEPT ![SceneName] = SystemRef(id)]
     /\ UNCHANGED <<sysVars, poolVars, histVars, emVars, gateVars, wrapVars, handed, curve,
                    storeCall, react>>

\* onUnmounted -> destroySystem(): with a system, the name is unregistered and
\* the system disposed
DestroySystem(o) ==
  LET system == scene.systemRef[o]
  IN /\ scene' = [scene EXCEPT
                    !.systems = IF system = 0 THEN @
                                ELSE [@ EXCEPT ![system].initialized = FALSE,
                                               ![system].disposed = TRUE],
                    !.systemRef[o] = 0,
                    !.mounted[o] = FALSE,
                    !.last = [op |-> "destroySystem", to |-> 0]]
     /\ particles' = IF system = 0 THEN particles
                     ELSE [particles EXCEPT ![SceneName] = AbsentRef]
     /\ UNCHANGED <<sysVars, poolVars, histVars, emVars, gateVars, wrapVars, handed, curve,
                    storeCall, react>>

\* the dispatch awaited by init() of the id-th system resolves
InitResolved(id) ==
  /\ scene.systems[id].pending
  /\ scene' = [scene EXCEPT !.systems[id].initialized = TRUE,
                            !.systems[id].pending = FALSE,
                            !.last = [op |-> "init", to |-> 0]]
  /\ UNCHANGED <<sysVars, poolVars, histVars, emVars, gateVars, wrapVars, handed, curve,
                 particles, storeCall, react>>

\* the frame callback of VFXEmitter: the name is resolved only while the
\* controller holds no system; then controller.update(delta, ...), whose spawn
\* goes through the handle the controller holds
EmitterFrame(delta) ==
  LET ref == Lookup(particles, SceneName)
      linked == emitter.system \/ TruthyRef(ref)
      link == IF emitter.system THEN scene.link ELSE IF TruthyRef(ref) THEN ref.id ELSE 0
      e1 == [emitter EXCEPT !.system = linked]
      delay == NumOr(e1.options.delay, 0)
      acc == e1.emitAccumulator + delta
      due == Due(delay, acc)
      success == Active(e1) /\ due /\ linked
      after == IF ~Active(e1) \/ delay <= 0 THEN e1.emitAccumulator
               ELSE IF due THEN acc - delay ELSE acc
  IN /\ acc <= MaxAcc
     /\ emitter' = [e1 EXCEPT !.emitAccumulator = after,
                              !.hasEmittedOnce = e1.hasEmittedOnce \/ success]
     /\ scene' = [scene EXCEPT
                    !.link = link,
                    !.systems = IF success /\ scene.systems[link].initialized
                                THEN [@ EXCEPT ![link].spawned = TRUE] ELSE @,
                    !.last = [op |-> "frame", to |-> IF success THEN link ELSE 0]]
     /\ UNCHANGED <<sysVars, poolVars, histVars, emHist, gateVars, wrapVars, handed, curve,
                    particles, storeCall, react>>

(***************************************************************************)
(* SpecScene: the components mount, rebuild their system on a structural   *)
(* change and unmount, in any order, while the emitter's frame callback    *)
(* runs.                                                                   *)
(***************************************************************************)
SceneDeltas == {1}

Init_Scene ==
  /\ Constructed(BaseOptions, "gpu")
  /\ WithEmitter(DefaultEmitterOptions)
  /\ WithConfig(DefaultConfig)
  /\ ExtIdle

MountScene == \E o \in Owners : ~scene.mounted[o] /\ InitSystem(o)
RecreateScene == \E o \in Owners : scene.mounted[o] /\ InitSystem(o)
UnmountScene == \E o \in Owners : scene.mounted[o] /\ DestroySystem(o)
ResolveScene == \E id \in DOMAIN scene.systems : InitResolved(id)
FrameScene == \E delta \in SceneDeltas : EmitterFrame(delta)

Next_Scene == MountScene \/ RecreateScene \/ UnmountScene \/ ResolveScene \/ FrameScene

SpecScene == Init_Scene /\ [][Next_Scene]_vars

\* getParticles(SceneName)
RegisteredNow == Lookup(particles, SceneName)

\* C27: an emitter linked to a particle system by name follows
\* reconstruction: an emission made from its frame callback goes to the
\* system registered under the name at that time, and never to a system that
\* initSystem has replaced.
C27_EmissionFollowsName ==
  (scene.last.op = "frame" /\ scene.last.to # 0) =>
    /\ ~scene.systems[scene.last.to].replaced
    /\ TruthyRef(RegisteredNow) => scene.last.to = RegisteredNow.id

\* C30: registrations are owner-safe: while at least one component that
\* registered under the name is mounted, getParticles(name) returns the
\* system of a mounted component, not disposed.
C30_OwnerSafe ==
  (\E o \in Owners : scene.mounted[o]) =>
    /\ TruthyRef(RegisteredNow)
    /\ \E o \in Owners : scene.mounted[o] /\ scene.systemRef[o] = RegisteredNow.id
    /\ ~scene.systems[RegisteredNow.id].disposed


(***************************************************************************)
(* stop() and the one-shot flag under the option updates a framework       *)
(* wrapper sends (SpecEmitter).                                            *)
(***************************************************************************)
\* C28: a controller that is not emitting stays so, and a controller that has
\* emitted keeps its one-shot flag, in every step that is not start() and
\* leaves the autoStart option as it was: in particular in an
\* updateOptions(...) that carries the autoStart value the controller already
\* has.
C28_StopUntilStart ==
  [][ (emHist'.last.op # "start" /\ emitter'.options.autoStart = emitter.options.autoStart) =>
        /\ ~emitter.isEmitting => ~emitter'.isEmitting
        /\ emitter.hasEmittedOnce => emitter'.hasEmittedOnce ]_vars


(***************************************************************************)
(* The slots the two backends select for a spawn (SpecRing).               *)
(***************************************************************************)
\* pool capacities, and the cursor values a pool of capacity n can hold
RingSizes == 1..(MaxParticles + 2)
Cursors(n) == 0..(n - 1)

SpawnsInFlight == {queue[k] : k \in {j \in DOMAIN queue : queue[j].kind = "spawn"}}

\* C29: the CPU spawn loop writes exactly the slots the GPU kernel's in-range
\* test accepts, for every capacity and every pair of cursor values of that
\* capacity (startIdx < endIdx, the wrapped case startIdx > endIdx, and
\* startIdx = endIdx, where both select the whole pool), and so for the range
\* of every spawn dispatched; an executed spawn leaves the store both
\* backends' kernels produce from the store before it.
C29_SameSlots ==
  /\ \A n \in RingSizes : \A startIdx \in Cursors(n), endIdx \in Cursors(n) :
        CpuSpawnIndices(startIdx, endIdx, n) = GpuSpawnIndices(startIdx, endIdx, n)
  /\ \A d \in SpawnsInFlight :
        CpuSpawnIndices(d.u.spawnIndexStart, d.u.spawnIndexEnd, options.maxParticles)
          = GpuSpawnIndices(d.u.spawnIndexStart, d.u.spawnIndexEnd, options.maxParticles)
  /\ lastRun.kind = "spawn" =>
        /\ store = SpawnKernel(lastRun.before, lastRun.u, "cpu", options.maxParticles)
        /\ store = SpawnKernel(lastRun.before, lastRun.u, "gpu", options.maxParticles)

\* the CPU backend has executed a spawn whose range starts past slot 0 and
\* ends where it starts: it wraps and covers the whole pool
C29_Witness ==
  /\ backend = "cpu"
  /\ lastRun.kind = "spawn"
  /\ lastRun.u.spawnIndexStart > 0
  /\ lastRun.u.spawnIndexStart = lastRun.u.spawnIndexEnd
  /\ \A i \in DOMAIN store : store[i] = SpawnParticle(i, lastRun.u)

====
